---------------------------- MODULE Spec2Model ----------------------------
(***************************************************************************)
(* A model of the clincore platform's tenancy gateway, its row-level       *)
(* security policies, and the case lifecycle engine (create / finalize /   *)
(* verify-replay / get) with the case immutability trigger.                *)
(*                                                                         *)
(* The application role is not the owner of the tables (the migrations     *)
(* grant to clincore_user and set NOBYPASSRLS), so every policy applies to *)
(* the statements below.                                                   *)
(***************************************************************************)
EXTENDS Integers, Sequences, FiniteSets, Bags, TLC

(***************************************************************************)
(* Universe and bounds                                                     *)
(***************************************************************************)
Tenants == {"T1", "T2"}
Conns == {"c1", "c2"}
\* the connection the storage statements of SpecRls run on
RlsConns == {"c1"}
RlsTables == {"patients", "cases", "access_logs", "usage_events", "mcare_feedback"}

\* rows the storage part may hold in total (row ids are 1..MaxRows)
MaxRows == 2

\* values of the connection variable app.tenant_id
Unset == "<unset>"
Empty == ""
NoLocal == "<nolocal>"
GucValues == {Unset, Empty} \cup Tenants

\* SQL values of a policy expression
SqlNull == "<null>"
SqlError == "<error>"

(***************************************************************************)
(* PostgreSQL expressions used by the policies                             *)
(***************************************************************************)
\* current_setting('app.tenant_id' [, missing_ok]) for variable value g
CurrentSetting(g, missing_ok) ==
    IF g = Unset THEN (IF missing_ok THEN SqlNull ELSE SqlError) ELSE g

\* nullif(x, '')
NullIfEmpty(x) == IF x = Empty THEN SqlNull ELSE x

\* x::uuid
CastUuid(x) ==
    IF x \in {SqlNull, SqlError} THEN x
    ELSE IF x \in Tenants THEN x ELSE SqlError

\* tenant_id = x  (three-valued, errors propagate)
SqlEq(tenant_id, x) ==
    IF x = SqlError THEN SqlError
    ELSE IF x = SqlNull THEN SqlNull
    ELSE IF tenant_id = x THEN "t" ELSE "f"

\* a OR b over {"t","f",SqlNull,SqlError}
SqlOr(a, b) ==
    IF a = SqlError \/ b = SqlError THEN SqlError
    ELSE IF a = "t" \/ b = "t" THEN "t"
    ELSE IF a = SqlNull \/ b = SqlNull THEN SqlNull ELSE "f"

(***************************************************************************)
(* The tenant-isolation policy of each table: the expression the policy    *)
(* evaluates for a row of tenant tenant_id when app.tenant_id is g.        *)
(***************************************************************************)
\* the policies with usage_events left without one
TenantExprUsageOpen(tbl, g, tenant_id) ==
    IF tbl \in {"patients", "cases"}
    THEN SqlEq(tenant_id, CastUuid(CurrentSetting(g, TRUE)))
    ELSE IF tbl = "access_logs"
    THEN SqlEq(tenant_id, CastUuid(NullIfEmpty(CurrentSetting(g, TRUE))))
    ELSE IF tbl = "usage_events" THEN "t"
    ELSE SqlEq(tenant_id, CastUuid(CurrentSetting(g, FALSE)))

TenantExpr(tbl, g, tenant_id) ==
    IF tbl \in {"patients", "cases"}
    THEN SqlEq(tenant_id, CastUuid(CurrentSetting(g, TRUE)))
    ELSE IF tbl = "access_logs"
    THEN SqlEq(tenant_id, CastUuid(NullIfEmpty(CurrentSetting(g, TRUE))))
    ELSE SqlEq(tenant_id, CastUuid(CurrentSetting(g, FALSE)))

\* USING qualification of command cmd: the permissive policies that apply to
\* the command are OR-ed (mcare_feedback adds FOR UPDATE / FOR DELETE
\* policies USING (false)).
PolicyUsing(tbl, cmd, g, tenant_id) ==
    IF tbl = "mcare_feedback" /\ cmd \in {"UPDATE", "DELETE"}
    THEN SqlOr(TenantExpr(tbl, g, tenant_id), "f")
    ELSE TenantExpr(tbl, g, tenant_id)

\* the USING-only policies taken as policies FOR SELECT, which check no write
PolicyCheckUsingOnly(tbl, cmd, g, tenant_id) ==
    IF tbl \in {"access_logs", "usage_events"} THEN "t"
    ELSE IF tbl = "mcare_feedback" /\ cmd = "UPDATE"
    THEN SqlOr(TenantExpr(tbl, g, tenant_id), "f")
    ELSE TenantExpr(tbl, g, tenant_id)

\* WITH CHECK of command cmd on the new row (a policy without WITH CHECK
\* uses its USING expression)
PolicyCheck(tbl, cmd, g, tenant_id) ==
    IF tbl = "mcare_feedback" /\ cmd = "UPDATE"
    THEN SqlOr(TenantExpr(tbl, g, tenant_id), "f")
    ELSE TenantExpr(tbl, g, tenant_id)


(***************************************************************************)
(* JSON canonicalization and signing (case_engine.finalize_case and        *)
(* verify_replay).  Text is a sequence of code points, bytes a sequence of *)
(* 0..255.  A float score is held in tenths (10 is 1.0).                   *)
(***************************************************************************)
RECURSIVE Digits(_)
\* str(n) for a natural number
Digits(n) == IF n < 10 THEN <<48 + n>> ELSE Digits(n \div 10) \o <<48 + (n % 10)>>

HexDigit(d) == IF d < 10 THEN 48 + d ELSE 87 + d

\* '\uXXXX'
EscapeU(cp) ==
    <<92, 117, HexDigit((cp \div 4096) % 16), HexDigit((cp \div 256) % 16),
      HexDigit((cp \div 16) % 16), HexDigit(cp % 16)>>

\* the UTF-8 bytes of a code point below 65536
Utf8(cp) ==
    IF cp < 128 THEN <<cp>>
    ELSE IF cp < 2048 THEN <<192 + (cp \div 64), 128 + (cp % 64)>>
    ELSE <<224 + (cp \div 4096), 128 + ((cp \div 64) % 64), 128 + (cp % 64)>>

\* json.dumps of one character, then .encode("utf-8")
EncodeChar(cp, ensure_ascii) ==
    IF cp = 34 THEN <<92, 34>>
    ELSE IF cp = 92 THEN <<92, 92>>
    ELSE IF cp < 32 THEN EscapeU(cp)
    ELSE IF cp < 128 THEN <<cp>>
    ELSE IF ensure_ascii THEN EscapeU(cp) ELSE Utf8(cp)

RECURSIVE EncodeChars(_, _)
EncodeChars(s, ensure_ascii) ==
    IF s = <<>> THEN <<>>
    ELSE EncodeChar(Head(s), ensure_ascii) \o EncodeChars(Tail(s), ensure_ascii)

\* json.dumps of a str
JsonString(s, ensure_ascii) == <<34>> \o EncodeChars(s, ensure_ascii) \o <<34>>

\* float.__repr__ of tenths / 10
FloatRepr(tenths) == Digits(tenths \div 10) \o <<46>> \o Digits(tenths % 10)

KeyRank == <<114, 97, 110, 107>>
KeyRemedy == <<114, 101, 109, 101, 100, 121>>
KeyScore == <<115, 99, 111, 114, 101>>

\* one {"rank":..,"remedy":..,"score":..} object with sort_keys=True and
\* separators (",", ":")
CanonicalEntry(e, ensure_ascii) ==
    <<123>> \o JsonString(KeyRank, ensure_ascii) \o <<58>> \o Digits(e.rank)
    \o <<44>> \o JsonString(KeyRemedy, ensure_ascii) \o <<58>> \o JsonString(e.remedy, ensure_ascii)
    \o <<44>> \o JsonString(KeyScore, ensure_ascii) \o <<58>> \o FloatRepr(e.score)
    \o <<125>>

RECURSIVE CanonicalEntries(_, _)
CanonicalEntries(snap, ensure_ascii) ==
    IF snap = <<>> THEN <<>>
    ELSE CanonicalEntry(Head(snap), ensure_ascii)
         \o (IF Tail(snap) = <<>> THEN <<>> ELSE <<44>>)
         \o CanonicalEntries(Tail(snap), ensure_ascii)

\* json.dumps(snapshot, sort_keys=True, separators=(",", ":")
\*            [, ensure_ascii=False]).encode("utf-8")
Canonical(snap, ensure_ascii) == <<91>> \o CanonicalEntries(snap, ensure_ascii) \o <<93>>

\* finalize_case: default ensure_ascii (True)
FinalizeCanonical(snap) == Canonical(snap, TRUE)

\* verify_replay serializing with the default ensure_ascii
VerifyCanonicalAscii(snap) == Canonical(snap, TRUE)

\* verify_replay: ensure_ascii=False
VerifyCanonical(snap) == Canonical(snap, FALSE)

\* hashlib.sha256(b).hexdigest(): 64 lowercase hex characters, taken as
\* collision-free and so represented by the bytes hashed
Sha256Hex(bytes) == [kind |-> "sha256", pre |-> bytes]

NullSig == [kind |-> "null", pre |-> <<>>]
\* a VARCHAR(64) value that is no digest
TextSig == [kind |-> "text", pre |-> <<116>>]

\* the placeholder ranking row finalize inserts
TestRemedy == <<84, 101, 115, 116, 82, 101, 109, 101, 100, 121>>

\* the str json.loads gives back for the text json.dumps wrote
RECURSIVE DecodeChars(_)
DecodeChars(b) ==
    IF b = <<>> THEN <<>>
    ELSE IF Head(b) = 92
         THEN IF b[2] = 117
              THEN LET d(i) == IF b[i] >= 97 THEN b[i] - 87 ELSE b[i] - 48
                   IN  <<4096 * d(3) + 256 * d(4) + 16 * d(5) + d(6)>>
                       \o DecodeChars(SubSeq(b, 7, Len(b)))
              ELSE <<b[2]>> \o DecodeChars(SubSeq(b, 3, Len(b)))
         ELSE <<Head(b)>> \o DecodeChars(Tail(b))

RECURSIVE ParseNat(_)
\* int(digits)
ParseNat(ds) ==
    IF ds = <<>> THEN 0 ELSE 10 * ParseNat(SubSeq(ds, 1, Len(ds) - 1)) + (ds[Len(ds)] - 48)

\* the float (in tenths) a JSON number d...d.d parses to
ParseTenths(ds) ==
    LET dot == CHOOSE i \in 1..Len(ds) : ds[i] = 46
    IN  10 * ParseNat(SubSeq(ds, 1, dot - 1)) + ParseNat(SubSeq(ds, dot + 1, Len(ds)))

\* CAST(json.dumps(snapshot) AS jsonb) and the value the driver loads back
JsonbRoundTrip(snap) ==
    [i \in 1..Len(snap) |->
        [rank |-> ParseNat(Digits(snap[i].rank)),
         remedy |-> DecodeChars(EncodeChars(snap[i].remedy, TRUE)),
         score |-> ParseTenths(FloatRepr(snap[i].score))]]

(***************************************************************************)
(* State                                                                   *)
(***************************************************************************)
VARIABLES
    rows,       \* committed rows of the tenant-partitioned tables
    nextId,     \* next row id
    conn,       \* the pooled connections: app.tenant_id and the open transaction
    last,       \* the statement just executed and what it returned
    cases,      \* committed rows of table cases, by case id
    case_results, \* committed rows of table case_results
    audit_logs, \* committed rows of table audit_logs
    access_logs, \* committed rows of table access_logs written by the case engine
    lock,       \* which request's transaction holds the row lock of each case
    req,        \* the HTTP requests in flight and their responses
    nextCase,   \* number of case ids handed out (uuid4 never repeats)
    direct,     \* number of direct SQL statements accepted on cases
    dstmt,      \* the direct SQL statement just issued on cases and its outcome
    wins,       \* per case, the finalize requests answered 200
    buckets,    \* TenantRateLimiter._buckets: per key, the deque of admitted instants
    clock,      \* time.monotonic(), in ticks
    admits,     \* per key, every instant is_allowed admitted so far (history)
    solo,       \* per key, the buckets of a limiter that only this key ever attempts on
    lim,        \* the is_allowed call just made and what it returned
    gate,       \* the request RateLimitMiddleware just dispatched and its response
    api_keys,   \* committed rows of table api_keys, by row number
    key_usage,  \* the _record_usage tasks scheduled with ensure_future, not yet run
    usage_events, \* committed rows of table usage_events, without id and created_at
    usage_failed, \* the _record_usage tasks that logged a warning and wrote nothing
    keyreq,     \* key-management requests between their authentication and their write
    keyresp,    \* the key-management or authentication response just sent
    rotated,    \* the raw keys a rotation answered 200 for (history)
    synthesis,  \* the tables of the SQLite file synthesis.db
    stats_cache, \* the file synthesis.db.mcare_cache.json (<<>>: no file)
    scored      \* per scored case, the results of its scoring runs (history)

rlsVars == <<rows, nextId, conn, last>>
caseVars == <<cases, case_results, audit_logs, access_logs, lock, req, nextCase,
              direct, dstmt, wins>>
gateVars == <<buckets, clock, admits, solo, lim, gate>>
keyVars == <<api_keys, key_usage, usage_events, usage_failed, keyreq, keyresp, rotated>>
mcareVars == <<synthesis, stats_cache, scored>>
extVars == <<gateVars, keyVars, mcareVars>>
vars == <<rows, nextId, conn, last, cases, case_results, audit_logs, access_logs,
          lock, req, nextCase, direct, dstmt, wins, buckets, clock, admits, solo,
          lim, gate, api_keys, key_usage, usage_events, usage_failed, keyreq,
          keyresp, rotated, synthesis, stats_cache, scored>>

\* no tenant, no operation
None == "<none>"
NoLim == [key |-> None, now |-> 0, allowed |-> FALSE, recent |-> 0, alone |-> FALSE]
NoGate == [path |-> <<>>, tenant |-> "", key |-> <<>>, counted |-> None,
           code |-> 0, ran |-> FALSE, sent |-> <<>>, x_request_id |-> <<>>,
           error |-> FALSE, request_id |-> <<>>]
NoKeyResp == [op |-> None, key |-> <<>>, code |-> 0, tenant |-> None, new_key |-> <<>>,
              rows_seen |-> {}, keys_seen |-> {}]

\* rows of symptom_remedies in synthesis.db
SymptomRemedies ==
    {[symptom_id |-> 1, remedy |-> "nux-v", degree |-> 3],
     [symptom_id |-> 1, remedy |-> "lyc", degree |-> 1],
     [symptom_id |-> 2, remedy |-> "lyc", degree |-> 3],
     [symptom_id |-> 2, remedy |-> "sulph", degree |-> 2],
     [symptom_id |-> 3, remedy |-> "sulph", degree |-> 1]}

\* the symptom ids of the cases scored
CaseInputs == {<<1>>, <<1, 2>>}

\* chosen_remedy of a feedback body: missing, or a remedy
ChosenRemedies == {"", "sulph"}

\* synthesis.db as deployed: the repertory, no clinical_feedback table yet
EngineDb == [symptom_remedies |-> SymptomRemedies]

\* no scoring run, no feedback, no cache file
McareIdle ==
    /\ synthesis = EngineDb
    /\ stats_cache = <<>>
    /\ scored = [ids \in CaseInputs |-> <<>>]

\* a fresh limiter (TenantRateLimiter.__init__) that no request has reached
GateIdle ==
    /\ buckets = <<>>
    /\ clock = 0
    /\ admits = [k \in Tenants |-> <<>>]
    /\ solo = [k \in Tenants |-> <<>>]
    /\ lim = NoLim
    /\ gate = NoGate

\* no key-management request in flight, nothing answered yet
KeysIdle ==
    /\ key_usage = EmptyBag
    /\ usage_events = EmptyBag
    /\ usage_failed = EmptyBag
    /\ keyreq = <<>>
    /\ keyresp = NoKeyResp
    /\ rotated = {}

(***************************************************************************)
(* Tenancy gateway: clincore.db.tenant_session, app.core.shared.db         *)
(***************************************************************************)
NoStmt == [kind |-> "none", c |-> "c1", tbl |-> "patients", g |-> Unset,
           tenant |-> "T1", old |-> "T1", outcome |-> "none", result |-> {},
           changed |-> FALSE]

FreshConn == [sess |-> Unset, local |-> NoLocal, open |-> FALSE,
              ins |-> {}, del |-> {}, failed |-> FALSE]

\* one setting for the whole pool instead of one for each connection
GucOfPool(cn) ==
    LET bound == {d \in Conns : conn[d].local # NoLocal}
    IN  IF bound = {} THEN cn.sess ELSE conn[CHOOSE d \in bound : TRUE].local

\* the value of app.tenant_id a statement on the connection sees
Guc(cn) == IF cn.local # NoLocal THEN cn.local ELSE cn.sess

\* SET app.tenant_id = t, without LOCAL: lasts for the session
SetSession(cn, t) == [cn EXCEPT !.sess = t]

\* SET LOCAL app.tenant_id = t / set_config('app.tenant_id', t, true)
SetLocal(cn, t) == [cn EXCEPT !.local = t]

\* end of a transaction: a transaction-local setting reverts to the session
\* value; a variable that was only ever SET LOCAL then reads as ''
EndTx(cn) ==
    [cn EXCEPT !.sess = IF cn.local # NoLocal /\ cn.sess = Unset THEN Empty ELSE cn.sess,
               !.local = NoLocal, !.open = FALSE,
               !.ins = {}, !.del = {}, !.failed = FALSE]

\* tenant_session(t) / in_tenant_tx(t, fn): open a transaction on a pooled
\* connection and bind the tenant as its first statement
BeginTenant(c, t) ==
    /\ ~conn[c].open
    /\ conn' = [conn EXCEPT ![c] = SetLocal([conn[c] EXCEPT !.open = TRUE], t)]
    /\ last' = NoStmt
    /\ UNCHANGED <<rows, nextId>>
    /\ UNCHANGED <<caseVars, extVars>>

\* session_scope() / engine.begin(): a transaction without a tenant binding
BeginRaw(c) ==
    /\ ~conn[c].open
    /\ conn' = [conn EXCEPT ![c].open = TRUE]
    /\ last' = NoStmt
    /\ UNCHANGED <<rows, nextId>>
    /\ UNCHANGED <<caseVars, extVars>>

\* normal return: commit (a failed transaction can only roll back)
Commit(c) ==
    /\ conn[c].open
    /\ rows' = IF conn[c].failed THEN rows ELSE (rows \ conn[c].del) \cup conn[c].ins
    /\ conn' = [conn EXCEPT ![c] = EndTx(conn[c])]
    /\ last' = NoStmt
    /\ UNCHANGED nextId
    /\ UNCHANGED <<caseVars, extVars>>

\* an exception leaves the scope: roll back
Rollback(c) ==
    /\ conn[c].open
    /\ conn' = [conn EXCEPT ![c] = EndTx(conn[c])]
    /\ last' = NoStmt
    /\ UNCHANGED <<rows, nextId>>
    /\ UNCHANGED <<caseVars, extVars>>

(***************************************************************************)
(* Statements on the tenant-partitioned tables, as the policies treat them *)
(***************************************************************************)
\* what the transaction of connection c sees of table tbl before policies
View(c, tbl) == {r \in (rows \ conn[c].del) \cup conn[c].ins : r.tbl = tbl}

CanRun(c) == conn[c].open /\ ~conn[c].failed

Fail(c) == [conn EXCEPT ![c].failed = TRUE]

\* the model lets one transaction at a time hold uncommitted writes
SoleWriter(c) == \A d \in Conns \ {c} : conn[d].ins = {} /\ conn[d].del = {}

\* SELECT * FROM tbl
Select(c, tbl) ==
    /\ CanRun(c)
    /\ LET g == Guc(conn[c])
           err == PolicyUsing(tbl, "SELECT", g, "T1") = SqlError
           vis == {r \in View(c, tbl) : PolicyUsing(tbl, "SELECT", g, r.tenant_id) = "t"}
       IN  \E raise \in BOOLEAN :
             \* a policy expression that cannot be evaluated fails the statement
             \* as soon as a row is scanned
             /\ raise => err
             /\ (err /\ View(c, tbl) # {}) => raise
             /\ IF raise
                THEN /\ conn' = Fail(c)
                     /\ last' = [NoStmt EXCEPT !.kind = "select", !.c = c, !.tbl = tbl,
                                    !.g = g, !.outcome = "error"]
                ELSE /\ conn' = conn
                     /\ last' = [NoStmt EXCEPT !.kind = "select", !.c = c, !.tbl = tbl,
                                    !.g = g, !.outcome = "ok", !.result = vis]
    /\ UNCHANGED <<rows, nextId>>
    /\ UNCHANGED <<caseVars, extVars>>

\* INSERT INTO tbl (tenant_id, ...) VALUES (t, ...)
Insert(c, tbl, t) ==
    /\ CanRun(c)
    /\ nextId <= MaxRows
    /\ SoleWriter(c)
    /\ UNCHANGED rows
    /\ LET g == Guc(conn[c])
           ok == PolicyCheck(tbl, "INSERT", g, t) = "t"
           r == [id |-> nextId, tbl |-> tbl, tenant_id |-> t]
       IN  /\ conn' = IF ok THEN [conn EXCEPT ![c].ins = @ \cup {r}] ELSE Fail(c)
           /\ nextId' = IF ok THEN nextId + 1 ELSE nextId
           /\ last' = [NoStmt EXCEPT !.kind = "insert", !.c = c, !.tbl = tbl, !.g = g,
                          !.tenant = t, !.old = t,
                          !.outcome = IF ok THEN "ok" ELSE "error",
                          !.changed = (View(c, tbl)' # View(c, tbl))]
    /\ UNCHANGED <<caseVars, extVars>>

\* UPDATE tbl SET tenant_id = t WHERE id = r.id
Update(c, r, t) ==
    /\ CanRun(c)
    /\ r \in View(c, r.tbl)
    /\ SoleWriter(c)
    /\ UNCHANGED <<rows, nextId>>
    /\ LET g == Guc(conn[c])
           using == PolicyUsing(r.tbl, "UPDATE", g, r.tenant_id)
           check == PolicyCheck(r.tbl, "UPDATE", g, t)
           new == [r EXCEPT !.tenant_id = t]
           outcome == IF using = SqlError THEN "error"
                      ELSE IF using # "t" THEN "norows"
                      ELSE IF check = "t" THEN "ok" ELSE "error"
           after == IF outcome = "ok"
                    THEN [conn EXCEPT ![c].ins = (@ \ {r}) \cup {new},
                                      ![c].del = IF r \in rows THEN @ \cup {r} ELSE @]
                    ELSE IF outcome = "error" THEN Fail(c) ELSE conn
       IN  /\ conn' = after
           /\ last' = [NoStmt EXCEPT !.kind = "update", !.c = c, !.tbl = r.tbl, !.g = g,
                          !.tenant = t, !.old = r.tenant_id, !.outcome = outcome,
                          !.changed = (View(c, r.tbl)' # View(c, r.tbl))]
    /\ UNCHANGED <<caseVars, extVars>>

\* DELETE FROM tbl WHERE id = r.id  (on cases the immutability trigger
\* refuses every delete)
Delete(c, r) ==
    /\ CanRun(c)
    /\ r \in View(c, r.tbl)
    /\ SoleWriter(c)
    /\ UNCHANGED <<rows, nextId>>
    /\ LET g == Guc(conn[c])
           using == PolicyUsing(r.tbl, "DELETE", g, r.tenant_id)
           outcome == IF using = SqlError THEN "error"
                      ELSE IF using # "t" THEN "norows"
                      ELSE IF r.tbl = "cases" THEN "error" ELSE "ok"
       IN  /\ conn' = IF outcome = "ok"
                      THEN [conn EXCEPT ![c].ins = @ \ {r},
                                        ![c].del = IF r \in rows THEN @ \cup {r} ELSE @]
                      ELSE IF outcome = "error" THEN Fail(c) ELSE conn
           /\ last' = [NoStmt EXCEPT !.kind = "delete", !.c = c, !.tbl = r.tbl, !.g = g,
                          !.tenant = r.tenant_id, !.old = r.tenant_id,
                          !.outcome = outcome,
                          !.changed = (View(c, r.tbl)' # View(c, r.tbl))]
    /\ UNCHANGED <<caseVars, extVars>>

AllRows == rows \cup UNION {conn[c].ins : c \in Conns}

CaseIdle ==
    /\ cases = <<>>
    /\ case_results = {}
    /\ audit_logs = {}
    /\ access_logs = <<>>
    /\ lock = <<>>
    /\ req = <<>>
    /\ nextCase = 0
    /\ direct = 0
    /\ dstmt = <<>>
    /\ wins = <<>>

InitRls ==
    /\ rows = {}
    /\ nextId = 1
    /\ conn = [c \in Conns |-> FreshConn]
    /\ last = NoStmt
    /\ CaseIdle
    /\ GateIdle
    /\ McareIdle
    /\ api_keys = <<>>
    /\ KeysIdle

NextRls ==
    \/ \E c \in RlsConns, t \in Tenants : BeginTenant(c, t)
    \/ \E c \in RlsConns : BeginRaw(c)
    \/ \E c \in RlsConns : Commit(c)
    \/ \E c \in RlsConns : Rollback(c)
    \/ \E c \in RlsConns, tbl \in RlsTables : Select(c, tbl)
    \/ \E c \in RlsConns, tbl \in RlsTables, t \in Tenants : Insert(c, tbl, t)
    \/ \E c \in RlsConns, r \in AllRows, t \in Tenants : Update(c, r, t)
    \/ \E c \in RlsConns, r \in AllRows : Delete(c, r)

SpecRls == InitRls /\ [][NextRls]_vars

\* SELECT current_setting('app.tenant_id', true) inside a scope
GetContext(c) ==
    /\ CanRun(c)
    /\ last' = [NoStmt EXCEPT !.kind = "show", !.c = c,
                   !.g = CurrentSetting(Guc(conn[c]), TRUE), !.outcome = "ok"]
    /\ UNCHANGED <<rows, nextId, conn>>
    /\ UNCHANGED <<caseVars, extVars>>

\* tenant scopes open side by side, each on the connection the pool gave it
NextSessions ==
    \/ \E c \in Conns, t \in Tenants : BeginTenant(c, t)
    \/ \E c \in Conns : Commit(c)
    \/ \E c \in Conns : Rollback(c)
    \/ \E c \in Conns : GetContext(c)
    \/ \E c \in Conns, tbl \in RlsTables : Select(c, tbl)

SpecSessions == InitRls /\ [][NextSessions]_vars

(***************************************************************************)
(* Table cases: rows, constraints and triggers                             *)
(***************************************************************************)
Reqs == {"r1", "r2"}

\* the ids uuid4() hands to create_case
NewIds == {1}
\* rows access_logs may hold
MaxLogs == 2
\* direct SQL statements the storage layer may accept
MaxDirect == 1

\* case ids: those create_case hands out and one that never exists
CaseIds == NewIds \cup {Cardinality(NewIds) + 1}

\* the endpoint of the rows the tests insert by SQL (_insert_usage_events);
\* no route of that path authenticates with a key
SqlEndpoint == "/cases"

\* usage-event count above which a free-tier tenant is refused
FreeTierLimit == 1000

NullSnap == [null |-> TRUE, rows |-> <<>>]
NullDetails == [null |-> TRUE, expected |-> NullSig, computed |-> NullSig, match |-> FALSE]

\* no row with this id
NoCase ==
    [status |-> "none", tenant_id |-> "T1", patient_id |-> "NULL",
     input_payload |-> "payload", random_seed |-> "NULL", finalized_at |-> 0,
     ranking_snapshot |-> NullSnap, result_signature |-> NullSig,
     replay_verified_at |-> 0, replay_verification_ok |-> "null",
     replay_verification_details |-> NullDetails,
     billing_status |-> "free", api_client_id |-> "NULL", updated_at |-> 0]

\* now(): a timestamp later than, so different from, the one stored
Now(prev) == IF prev = 1 THEN 2 ELSE 1

\* the row INSERT INTO cases (id, tenant_id, input_payload, random_seed,
\* status, created_at) stores, the other columns taking their defaults
NewCase(tenant_id) ==
    [NoCase EXCEPT !.status = "draft", !.tenant_id = tenant_id, !.random_seed = "0",
                   !.updated_at = 1]

ReplayCols == {"replay_verified_at", "replay_verification_ok", "replay_verification_details"}

\* enforce_case_immutability as migration 34bf50c7d602 first defined it:
\* every UPDATE of a finalized row is refused, verify-replay's included
TriggerAllowsV032(old, new) == old.status # "finalized"

\* enforce_case_immutability() BEFORE UPDATE: TRUE when the trigger returns
\* NEW, FALSE when it raises
TriggerAllows(old, new) ==
    IF old.status = "finalized"
    THEN /\ \E c \in ReplayCols : new[c] # old[c]
         /\ new.status = old.status
         /\ new.result_signature = old.result_signature
         /\ old.result_signature # NullSig
         /\ new.ranking_snapshot = old.ranking_snapshot
         /\ new.finalized_at = old.finalized_at
         /\ new.input_payload = old.input_payload
         /\ new.random_seed = old.random_seed
    ELSE TRUE

\* the same trigger guarding finalized rows only
TriggerAllowsDeleteOfDraft(old) == old.status # "finalized"

\* enforce_case_immutability() BEFORE DELETE: it raises for every row
TriggerAllowsDelete(old) == FALSE

\* a table without the trigger
NoUpdatedAtTrigger(old, new) == new

\* set_updated_at() BEFORE UPDATE
SetUpdatedAt(old, new) == [new EXCEPT !.updated_at = Now(old.updated_at)]

\* ck_cases_status_allowed, chk_finalized_requires_signature,
\* chk_replay_only_on_finalized, ck_cases_billing_status_allowed
ConstraintsHold(row) ==
    /\ row.status \in {"draft", "finalized", "archived"}
    /\ (row.status # "finalized") \/ (row.result_signature # NullSig)
    /\ \/ (row.status # "finalized" /\ row.replay_verified_at = 0
                                     /\ row.replay_verification_ok = "null")
       \/ row.status = "finalized"
    /\ row.billing_status \in {"free", "paid", "subscription"}

\* UPDATE cases SET <assign> WHERE id = k [AND status = guard] under
\* app.tenant_id = g, on the latest committed row old:
\* the outcome and the row the statement leaves
ApplyUpdate(g, old, assign, guard) ==
    LET set == [c \in DOMAIN old |-> IF c \in DOMAIN assign THEN assign[c] ELSE old[c]]
        new == SetUpdatedAt(old, set)
    IN  IF old.status = "none" \/ PolicyUsing("cases", "UPDATE", g, old.tenant_id) # "t"
           \/ (guard # "any" /\ old.status # guard)
        THEN [outcome |-> "norows", row |-> old]
        ELSE IF ~TriggerAllows(old, set) THEN [outcome |-> "trigger", row |-> old]
        ELSE IF ~ConstraintsHold(new) THEN [outcome |-> "constraint", row |-> old]
        ELSE IF PolicyCheck("cases", "UPDATE", g, new.tenant_id) # "t"
        THEN [outcome |-> "rls", row |-> old]
        ELSE [outcome |-> "ok", row |-> new]

\* a SELECT that no policy filters
SelectCaseUnfiltered(g, k) == cases[k]

\* the row of case k a SELECT under app.tenant_id = g returns (NoCase: none)
SelectCase(g, k) ==
    IF cases[k].status # "none" /\ PolicyUsing("cases", "SELECT", g, cases[k].tenant_id) = "t"
    THEN cases[k] ELSE NoCase

(***************************************************************************)
(* The case engine: clincore.api.case_engine.  Every request runs in its   *)
(* own tenant_session(X-Tenant-ID) transaction at READ COMMITTED: each     *)
(* statement sees what is committed plus the transaction's own writes, an  *)
(* UPDATE waits for the row lock and re-checks its WHERE on the latest     *)
(* row, and an HTTPException leaves the session scope by rollback.         *)
(***************************************************************************)
IdleReq ==
    [op |-> "idle", pc |-> "idle", tenant |-> "T1", k |-> 1, row_tenant |-> "T1",
     snap |-> <<>>, sig |-> NullSig, expected |-> NullSig, computed |-> NullSig,
     ok |-> FALSE, verified_at |-> 0, resp |-> 0, seen |-> NoCase,
     pcase |-> NoCase, pres |-> {}, paudit |-> {}, paccess |-> <<>>, warned |-> FALSE]

NoDirect == [kind |-> "none", outcome |-> "none"]

Free(r) == req[r].pc \in {"idle", "done"}

\* an error response whose transaction is committed all the same
RespondWithoutRollback(r, op, t, k, code, row) ==
    [req EXCEPT ![r] = [req[r] EXCEPT !.op = op, !.pc = "commit", !.tenant = t, !.k = k,
                                      !.resp = code, !.seen = row]]

\* the request ends with an HTTPException: its response, the row it had
\* loaded, its transaction's writes discarded
Respond(r, op, t, k, code, row) ==
    [req EXCEPT ![r] = [IdleReq EXCEPT !.op = op, !.pc = "done", !.tenant = t, !.k = k,
                                       !.resp = code, !.seen = row]]

\* rows of usage_events the tenant's session counts
UsageCount(t) ==
    BagCardinality([x \in {y \in BagToSet(usage_events) :
                              /\ y.tenant_id = t
                              /\ PolicyUsing("usage_events", "SELECT", t, y.tenant_id) = "t"}
                       |-> usage_events[x]])

\* access-log rows stored or about to be
LogRows == Len(access_logs) + Cardinality({r \in Reqs : req[r].paccess # <<>>})

\* POST /cases: tenant read, billing gate and INSERT
CreateInsert(r, t) ==
    /\ Free(r)
    /\ nextCase + 1 \in NewIds
    /\ LET mine == {k \in CaseIds : SelectCase(t, k).status # "none"
                                     /\ SelectCase(t, k).tenant_id = t}
           k == nextCase + 1
       IN  \E b \in IF mine = {} THEN {0} ELSE mine :
             IF b # 0 /\ cases[b].billing_status = "free" /\ UsageCount(t) > FreeTierLimit
             THEN /\ req' = Respond(r, "create", t, k, 402, NoCase)
                  /\ UNCHANGED nextCase
             ELSE /\ req' = [req EXCEPT ![r] = [IdleReq EXCEPT !.op = "create",
                                 !.pc = "commit", !.tenant = t, !.k = k,
                                 !.pcase = NewCase(t)]]
                  /\ nextCase' = k
    /\ UNCHANGED <<cases, case_results, audit_logs, access_logs, lock, direct, dstmt, wins>>
    /\ UNCHANGED <<rlsVars, extVars>>

\* the session scope exits normally: COMMIT, then the response
CommitTx(r) ==
    /\ req[r].pc = "commit"
    /\ cases' = IF req[r].pcase.status # "none"
                THEN [cases EXCEPT ![req[r].k] = req[r].pcase] ELSE cases
    /\ case_results' = case_results \cup req[r].pres
    /\ audit_logs' = audit_logs \cup req[r].paudit
    /\ access_logs' = access_logs \o req[r].paccess
    /\ lock' = [k \in CaseIds |-> IF lock[k] = r THEN "free" ELSE lock[k]]
    /\ req' = [req EXCEPT ![r].pc = "done", ![r].resp = 200, ![r].pcase = NoCase,
                          ![r].pres = {}, ![r].paudit = {}, ![r].paccess = <<>>]
    /\ wins' = IF req[r].op = "finalize" THEN [wins EXCEPT ![req[r].k] = @ + 1] ELSE wins
    /\ UNCHANGED <<nextCase, direct, dstmt>>
    /\ UNCHANGED <<rlsVars, extVars>>

\* POST /cases/{k}/finalize: SELECT id, tenant_id, status
FinalizeLoad(r, t, k) ==
    /\ Free(r)
    /\ LET row == SelectCase(t, k)
       IN  req' = IF row.status = "none" THEN Respond(r, "finalize", t, k, 404, row)
                  ELSE IF row.status # "draft" THEN Respond(r, "finalize", t, k, 400, row)
                  ELSE [req EXCEPT ![r] = [IdleReq EXCEPT !.op = "finalize",
                           !.pc = "insert", !.tenant = t, !.k = k,
                           !.row_tenant = row.tenant_id, !.seen = row]]
    /\ UNCHANGED <<cases, case_results, audit_logs, access_logs, lock, nextCase,
                   direct, dstmt, wins>>
    /\ UNCHANGED <<rlsVars, extVars>>

\* INSERT INTO case_results: the placeholder ranking
FinalizeInsert(r) ==
    /\ req[r].op = "finalize" /\ req[r].pc = "insert"
    /\ req' = [req EXCEPT ![r].pc = "readback",
                  ![r].pres = {[id |-> <<r, req[r].k>>, case_id |-> req[r].k, rank |-> 1,
                                remedy_name |-> TestRemedy, raw_score |-> 10]}]
    /\ UNCHANGED <<cases, case_results, audit_logs, access_logs, lock, nextCase,
                   direct, dstmt, wins>>
    /\ UNCHANGED <<rlsVars, extVars>>

RECURSIVE SeqLE(_, _)
\* remedy_name ASC
SeqLE(a, b) ==
    IF a = <<>> THEN TRUE
    ELSE IF b = <<>> THEN FALSE
    ELSE IF Head(a) # Head(b) THEN Head(a) < Head(b)
    ELSE SeqLE(Tail(a), Tail(b))

\* ORDER BY rank ASC, remedy_name ASC
OrderedResults(S) ==
    CHOOSE s \in [1..Cardinality(S) -> S] :
        /\ \A x \in S : \E i \in DOMAIN s : s[i] = x
        /\ \A i, j \in DOMAIN s :
              i < j => \/ s[i].rank < s[j].rank
                       \/ s[i].rank = s[j].rank /\ SeqLE(s[i].remedy_name, s[j].remedy_name)

\* the canonical text stored where its digest belongs
SignSnapshotUnhashed(snap) == [kind |-> "text", pre |-> FinalizeCanonical(snap)]

\* result_signature of a ranking snapshot as finalize computes it
SignSnapshot(snap) == Sha256Hex(FinalizeCanonical(snap))

\* SELECT rank, remedy_name, raw_score ... ORDER BY; build ranking_snapshot
\* and result_signature
FinalizeReadBack(r) ==
    /\ req[r].op = "finalize" /\ req[r].pc = "readback"
    /\ LET mine == {x \in case_results \cup req[r].pres : x.case_id = req[r].k}
           ord == OrderedResults(mine)
           snap == [i \in DOMAIN ord |-> [rank |-> ord[i].rank, remedy |-> ord[i].remedy_name,
                                          score |-> ord[i].raw_score]]
       IN  req' = [req EXCEPT ![r].pc = "update", ![r].snap = snap,
                              ![r].sig = SignSnapshot(snap)]
    /\ UNCHANGED <<cases, case_results, audit_logs, access_logs, lock, nextCase,
                   direct, dstmt, wins>>
    /\ UNCHANGED <<rlsVars, extVars>>

\* the UPDATE without its status guard
UnguardedFinalize == "any"

\* AND status = 'draft'
FinalizeGuard == "draft"

\* UPDATE cases SET status = 'finalized', ... WHERE id = k AND status = 'draft'
FinalizeUpdate(r) ==
    /\ req[r].op = "finalize" /\ req[r].pc = "update"
    /\ lock[req[r].k] \in {"free", r}
    /\ LET k == req[r].k
           res == ApplyUpdate(req[r].tenant, cases[k],
                     [status |-> "finalized",
                      finalized_at |-> Now(cases[k].finalized_at),
                      ranking_snapshot |-> [null |-> FALSE, rows |-> JsonbRoundTrip(req[r].snap)],
                      result_signature |-> req[r].sig],
                     FinalizeGuard)
       IN  IF res.outcome = "ok"
           THEN /\ req' = [req EXCEPT ![r].pc = "audit", ![r].pcase = res.row]
                /\ lock' = [lock EXCEPT ![k] = r]
           ELSE /\ req' = Respond(r, "finalize", req[r].tenant, k,
                                  IF res.outcome = "norows" THEN 400 ELSE 500,
                                  req[r].seen)
                /\ lock' = lock
    /\ UNCHANGED <<cases, case_results, audit_logs, access_logs, nextCase, direct, dstmt, wins>>
    /\ UNCHANGED <<rlsVars, extVars>>

\* an audit row that names no case
AuditRowWithoutRecord(r, tenant_id, case_id) ==
    [id |-> <<r, Cardinality(audit_logs)>>, tenant_id |-> tenant_id, action |-> "FINALIZE",
     table_name |-> "cases", record_id |-> 0]

\* the row (id, tenant_id, action, table_name, record_id) finalize inserts:
\* id is a fresh uuid4(), tenant_id the tenant of the row it selected
AuditRow(r, tenant_id, case_id) ==
    [id |-> <<r, Cardinality(audit_logs)>>, tenant_id |-> tenant_id, action |-> "FINALIZE",
     table_name |-> "cases", record_id |-> case_id]

\* INSERT INTO audit_logs ... 'FINALIZE'
FinalizeAudit(r) ==
    /\ req[r].op = "finalize" /\ req[r].pc = "audit"
    /\ req' = [req EXCEPT ![r].pc = "commit",
                  ![r].paudit = {AuditRow(r, req[r].row_tenant, req[r].k)}]
    /\ UNCHANGED <<cases, case_results, audit_logs, access_logs, lock, nextCase,
                   direct, dstmt, wins>>
    /\ UNCHANGED <<rlsVars, extVars>>

\* POST /cases/{k}/verify-replay: SELECT, recompute, compare
VerifyLoad(r, t, k) ==
    /\ Free(r)
    /\ LogRows < MaxLogs
    /\ LET row == SelectCase(t, k)
           computed == Sha256Hex(VerifyCanonical(row.ranking_snapshot.rows))
       IN  req' = IF row.status = "none" THEN Respond(r, "verify", t, k, 404, row)
                  ELSE IF row.status # "finalized" \/ row.ranking_snapshot.null
                  THEN Respond(r, "verify", t, k, 400, row)
                  ELSE [req EXCEPT ![r] = [IdleReq EXCEPT !.op = "verify", !.pc = "update",
                           !.tenant = t, !.k = k, !.row_tenant = row.tenant_id,
                           !.seen = row, !.expected = row.result_signature, !.computed = computed,
                           !.ok = (computed = row.result_signature)]]
    /\ UNCHANGED <<cases, case_results, audit_logs, access_logs, lock, nextCase,
                   direct, dstmt, wins>>
    /\ UNCHANGED <<rlsVars, extVars>>

\* UPDATE cases SET replay_* WHERE id = k RETURNING replay_verified_at
VerifyUpdate(r) ==
    /\ req[r].op = "verify" /\ req[r].pc = "update"
    /\ lock[req[r].k] \in {"free", r}
    /\ LET k == req[r].k
           res == ApplyUpdate(req[r].tenant, cases[k],
                     [replay_verified_at |-> Now(cases[k].replay_verified_at),
                      replay_verification_ok |-> IF req[r].ok THEN "true" ELSE "false",
                      replay_verification_details |->
                          [null |-> FALSE, expected |-> req[r].expected,
                           computed |-> req[r].computed, match |-> req[r].ok]],
                     "any")
       IN  IF res.outcome = "ok"
           THEN /\ req' = [req EXCEPT ![r].pc = "log", ![r].pcase = res.row,
                                      ![r].verified_at = res.row.replay_verified_at]
                /\ lock' = [lock EXCEPT ![k] = r]
           ELSE IF res.outcome = "norows"
           THEN /\ req' = [req EXCEPT ![r].pc = "log"]
                /\ lock' = lock
           ELSE /\ req' = Respond(r, "verify", req[r].tenant, k, 500, req[r].seen)
                /\ lock' = lock
    /\ UNCHANGED <<cases, case_results, audit_logs, access_logs, nextCase, direct, dstmt, wins>>
    /\ UNCHANGED <<rlsVars, extVars>>

\* an INSERT that stores VIEW whatever the action
LogAccessAlwaysView(r, tenant_id, action) ==
    IF PolicyCheck("access_logs", "INSERT", req[r].tenant, tenant_id) = "t"
    THEN <<[tenant_id |-> tenant_id, case_id |-> req[r].k, action |-> "VIEW"]>>
    ELSE <<>>

\* _log_access(db, tenant, case, action): INSERT INTO access_logs
LogAccess(r, tenant_id, action) ==
    IF PolicyCheck("access_logs", "INSERT", req[r].tenant, tenant_id) = "t"
    THEN <<[tenant_id |-> tenant_id, case_id |-> req[r].k, action |-> action]>>
    ELSE <<>>

\* the INSERT of _log_access raised: the exception is logged and swallowed,
\* but the statement ran in the request's own transaction (no savepoint),
\* which PostgreSQL has aborted: its earlier writes are gone and the COMMIT
\* at the end of the session scope is a ROLLBACK
AbortedWrites(pcase) == NoCase

VerifyLog(r) ==
    /\ req[r].op = "verify" /\ req[r].pc = "log"
    /\ LET ins == LogAccess(r, req[r].tenant, "VERIFY")
       IN  req' = [req EXCEPT ![r].pc = "commit", ![r].paccess = ins,
                              ![r].warned = (ins = <<>>),
                              ![r].pcase = IF ins = <<>> THEN AbortedWrites(@) ELSE @]
    /\ UNCHANGED <<cases, case_results, audit_logs, access_logs, lock, nextCase,
                   direct, dstmt, wins>>
    /\ UNCHANGED <<rlsVars, extVars>>

\* GET /cases/{k}: SELECT * and the VIEW access-log row
GetLoad(r, t, k) ==
    /\ Free(r)
    /\ LogRows < MaxLogs
    /\ LET row == SelectCase(t, k)
       IN  req' = IF row.status = "none" THEN Respond(r, "get", t, k, 404, row)
                  ELSE [req EXCEPT ![r] = [IdleReq EXCEPT !.op = "get", !.pc = "commit",
                           !.tenant = t, !.k = k, !.row_tenant = row.tenant_id,
                           !.seen = row,
                           !.paccess = IF PolicyCheck("access_logs", "INSERT", t,
                                                      row.tenant_id) = "t"
                                       THEN <<[tenant_id |-> row.tenant_id, case_id |-> k,
                                               action |-> "VIEW"]>>
                                       ELSE <<>>,
                           !.warned = (PolicyCheck("access_logs", "INSERT", t,
                                                   row.tenant_id) # "t")]]
    /\ UNCHANGED <<cases, case_results, audit_logs, access_logs, lock, nextCase,
                   direct, dstmt, wins>>
    /\ UNCHANGED <<rlsVars, extVars>>

\* the database raises on the INSERT of _log_access that a GET or a
\* verify-replay has just issued (the case was deleted meanwhile, the
\* statement timed out, ...): nothing is stored, a warning is logged
AccessLogFails(r) ==
    /\ req[r].op \in {"get", "verify"}
    /\ req[r].pc = "commit"
    /\ req[r].paccess # <<>>
    /\ req' = [req EXCEPT ![r].paccess = <<>>, ![r].warned = TRUE,
                          ![r].pcase = AbortedWrites(@)]
    /\ UNCHANGED <<cases, case_results, audit_logs, access_logs, lock, nextCase,
                   direct, dstmt, wins>>
    /\ UNCHANGED <<rlsVars, extVars>>

(***************************************************************************)
(* SQL issued straight at the storage layer by a session bound to a        *)
(* tenant, as the tamper tests do: one statement, one transaction.         *)
(***************************************************************************)
OtherTenant(t) == CHOOSE u \in Tenants : u # t

\* a ranking the engine never wrote, with a remedy name outside ASCII
ForgedRows == <<[rank |-> 1, remedy |-> <<233>>, score |-> 10]>>
ForgedSnap == [null |-> FALSE, rows |-> ForgedRows]
ForgedDetails == [null |-> FALSE, expected |-> TextSig, computed |-> TextSig, match |-> TRUE]

Assign(col, vals) == {[c \in {col} |-> v] : v \in vals}

\* SET <one column outside replay_*> = <a value it does not hold>
OtherAssignments(old) ==
         Assign("tenant_id", {OtherTenant(old.tenant_id)})
    \cup Assign("patient_id", {"tampered"})
    \cup Assign("input_payload", {"tampered"})
    \cup Assign("random_seed", {"tampered"})
    \cup Assign("status", {"draft", "archived", "deleted"} \ {old.status})
    \cup Assign("finalized_at", {Now(old.finalized_at)})
    \cup Assign("ranking_snapshot", {ForgedSnap})
    \cup Assign("result_signature", {TextSig})
    \cup Assign("billing_status", {"paid", "gold"})
    \cup Assign("api_client_id", {"tampered"})

\* SET <one replay_* column> = <a value it does not hold>
ReplayAssignments(old) ==
         Assign("replay_verified_at", {0, Now(old.replay_verified_at)} \ {old.replay_verified_at})
    \cup Assign("replay_verification_ok", {"null", "false"} \ {old.replay_verification_ok})
    \cup Assign("replay_verification_details", {ForgedDetails} \ {old.replay_verification_details})

\* SET status = 'finalized', result_signature = ... [, ranking_snapshot = ...]
ForgedFinalize ==
    {[status |-> "finalized", result_signature |-> TextSig]}
    \cup {[status |-> "finalized", result_signature |-> s, ranking_snapshot |-> ForgedSnap] :
        s \in {Sha256Hex(Canonical(ForgedRows, TRUE)), Sha256Hex(Canonical(ForgedRows, FALSE))}}

\* the statements tried on a row: on a finalized one every column, alone
\* and together with a replay_* column; on any other the status and the
\* replay_* columns
DirectStatements(old) ==
    IF old.status = "finalized"
    THEN OtherAssignments(old) \cup ReplayAssignments(old)
         \cup {a @@ [replay_verified_at |-> Now(old.replay_verified_at)] :
                  a \in OtherAssignments(old)}
    ELSE Assign("status", {"draft", "archived", "deleted"} \ {old.status})
         \cup ReplayAssignments(old) \cup ForgedFinalize

\* UPDATE cases SET <assign> WHERE id = k, under the owning tenant
DirectUpdate(k, assign) ==
    /\ cases[k].status # "none"
    /\ lock[k] = "free"
    /\ LET res == ApplyUpdate(cases[k].tenant_id, cases[k], assign, "any")
       IN  /\ res.outcome = "ok" => direct < MaxDirect
           /\ cases' = [cases EXCEPT ![k] = res.row]
           /\ direct' = IF res.outcome = "ok" THEN direct + 1 ELSE direct
           /\ dstmt' = [kind |-> "update",
                        outcome |-> IF res.outcome \in {"ok", "norows"} THEN res.outcome
                                    ELSE "error"]
    /\ UNCHANGED <<case_results, audit_logs, access_logs, lock, req, nextCase, wins>>
    /\ UNCHANGED <<rlsVars, extVars>>

\* DELETE FROM cases WHERE id = k, under the owning tenant: the trigger
\* raises for every row the statement reaches (case_results would go with
\* the row, ON DELETE CASCADE)
DirectDelete(k) ==
    /\ cases[k].status # "none"
    /\ lock[k] = "free"
    /\ LET reached == PolicyUsing("cases", "DELETE", cases[k].tenant_id,
                                  cases[k].tenant_id) = "t"
           gone == reached /\ TriggerAllowsDelete(cases[k])
       IN  /\ dstmt' = [kind |-> "delete",
                        outcome |-> IF ~reached THEN "norows"
                                    ELSE IF gone THEN "ok" ELSE "error"]
           /\ cases' = IF gone THEN [cases EXCEPT ![k] = NoCase] ELSE cases
           /\ case_results' = IF gone THEN {x \in case_results : x.case_id # k}
                               ELSE case_results
    /\ UNCHANGED <<audit_logs, access_logs, lock, req, nextCase, direct, wins>>
    /\ UNCHANGED <<rlsVars, extVars>>

InitCase ==
    /\ rows = {}
    /\ nextId = 1
    /\ conn = [c \in Conns |-> FreshConn]
    /\ last = NoStmt
    /\ cases = [k \in CaseIds |-> NoCase]
    /\ case_results = {}
    /\ audit_logs = {}
    /\ access_logs = <<>>
    /\ lock = [k \in CaseIds |-> "free"]
    /\ req = [r \in Reqs |-> IdleReq]
    /\ nextCase = 0
    /\ direct = 0
    /\ dstmt = NoDirect
    /\ wins = [k \in CaseIds |-> 0]
    /\ GateIdle
    /\ McareIdle
    /\ api_keys = <<>>
    /\ KeysIdle

\* the requests of the case engine, interleaved statement by statement
NextApi ==
    \/ \E r \in Reqs, t \in Tenants : CreateInsert(r, t)
    \/ \E r \in Reqs : CommitTx(r)
    \/ \E r \in Reqs, t \in Tenants, k \in CaseIds : FinalizeLoad(r, t, k)
    \/ \E r \in Reqs : FinalizeInsert(r)
    \/ \E r \in Reqs : FinalizeReadBack(r)
    \/ \E r \in Reqs : FinalizeUpdate(r)
    \/ \E r \in Reqs : FinalizeAudit(r)
    \/ \E r \in Reqs, t \in Tenants, k \in CaseIds : VerifyLoad(r, t, k)
    \/ \E r \in Reqs : VerifyUpdate(r)
    \/ \E r \in Reqs : VerifyLog(r)
    \/ \E r \in Reqs, t \in Tenants, k \in CaseIds : GetLoad(r, t, k)

SpecApi == InitCase /\ [][NextApi]_vars

\* the same requests on a database that may refuse the access-log INSERT
NextAudit ==
    \/ NextApi
    \/ \E r \in Reqs : AccessLogFails(r)

SpecAudit == InitCase /\ [][NextAudit]_vars

\* one client's requests, one after the other, under the client's tenant
Client == {"r1"}
ClientTenants == {"T1"}

\* requests and direct statements on the same cases
NextCase ==
    \/ \E r \in Client, t \in ClientTenants : CreateInsert(r, t)
    \/ \E r \in Client : CommitTx(r)
    \/ \E r \in Client, t \in ClientTenants, k \in CaseIds : FinalizeLoad(r, t, k)
    \/ \E r \in Client : FinalizeInsert(r)
    \/ \E r \in Client : FinalizeReadBack(r)
    \/ \E r \in Client : FinalizeUpdate(r)
    \/ \E r \in Client : FinalizeAudit(r)
    \/ \E r \in Client, t \in ClientTenants, k \in CaseIds : VerifyLoad(r, t, k)
    \/ \E r \in Client : VerifyUpdate(r)
    \/ \E r \in Client : VerifyLog(r)
    \/ \E r \in Client, t \in ClientTenants, k \in CaseIds : GetLoad(r, t, k)
    \/ \E k \in CaseIds : \E assign \in DirectStatements(cases[k]) : DirectUpdate(k, assign)
    \/ \E k \in CaseIds : DirectDelete(k)

SpecCase == InitCase /\ [][NextCase]_vars

(***************************************************************************)
(* Finalize and verify-replay on a draft case whose case_results already   *)
(* hold ranking rows: finalize reads back every row of the case, not only  *)
(* the placeholder it inserts.                                             *)
(***************************************************************************)
\* remedy_name values: 'A', U+00E9 and U+20AC
RemedyNames == {<<65>>, <<233>>, <<8364>>}

\* ranking rows of case k: rank INTEGER, remedy_name VARCHAR(100), raw_score FLOAT
RankingRows(k) ==
    {[id |-> <<"engine", rank, remedy_name>>, case_id |-> k, rank |-> rank,
      remedy_name |-> remedy_name, raw_score |-> 10] :
        rank \in {1, 2}, remedy_name \in RemedyNames}

\* the rankings a case may hold when it is finalized: none, one row or two
Rankings(k) == {S \in SUBSET RankingRows(k) : Cardinality(S) <= 2}

InitRanking ==
    /\ rows = {}
    /\ nextId = 1
    /\ conn = [c \in Conns |-> FreshConn]
    /\ last = NoStmt
    /\ cases = [k \in CaseIds |-> IF k \in NewIds THEN NewCase("T1") ELSE NoCase]
    /\ \E ranking \in Rankings(1) : case_results = ranking
    /\ audit_logs = {}
    /\ access_logs = <<>>
    /\ lock = [k \in CaseIds |-> "free"]
    /\ req = [r \in Reqs |-> IdleReq]
    /\ nextCase = Cardinality(NewIds)
    /\ direct = 0
    /\ dstmt = NoDirect
    /\ wins = [k \in CaseIds |-> 0]
    /\ GateIdle
    /\ McareIdle
    /\ api_keys = <<>>
    /\ KeysIdle

NextRanking ==
    \/ \E r \in Reqs : CommitTx(r)
    \/ \E r \in Reqs, t \in ClientTenants, k \in CaseIds : FinalizeLoad(r, t, k)
    \/ \E r \in Reqs : FinalizeInsert(r)
    \/ \E r \in Reqs : FinalizeReadBack(r)
    \/ \E r \in Reqs : FinalizeUpdate(r)
    \/ \E r \in Reqs : FinalizeAudit(r)
    \/ \E r \in Reqs, t \in ClientTenants, k \in CaseIds : VerifyLoad(r, t, k)
    \/ \E r \in Reqs : VerifyUpdate(r)
    \/ \E r \in Reqs : VerifyLog(r)

SpecRanking == InitRanking /\ [][NextRanking]_vars

(***************************************************************************)
(* The free-tier gate of create_case, on tenants with and without a case   *)
(* and usage rows written by SQL.                                          *)
(***************************************************************************)
\* the values ck_cases_billing_status_allowed admits
BillingStatuses == {"free", "paid", "subscription"}

\* the usage row the tests insert for tenant t
SqlUsageRow(t) == [tenant_id |-> t, api_key_id |-> 0, endpoint |-> SqlEndpoint]

\* INSERT INTO usage_events ... VALUES (...), ...: n rows of tenant t in one
\* statement of a session bound to t
InsertUsageEvents(t, n) ==
    /\ UsageCount(t) + n <= FreeTierLimit + 1
    /\ PolicyCheck("usage_events", "INSERT", t, t) = "t"
    /\ usage_events' = usage_events (+) (SqlUsageRow(t) :> n)
    /\ UNCHANGED <<api_keys, key_usage, usage_failed, keyreq, keyresp, rotated>>
    /\ UNCHANGED <<mcareVars, rlsVars, caseVars, gateVars>>

\* tenant T1 with no case or with one draft case of any billing status,
\* tenant T2 without a case, no usage rows
InitBilling ==
    /\ rows = {}
    /\ nextId = 1
    /\ conn = [c \in Conns |-> FreshConn]
    /\ last = NoStmt
    /\ \E seeded \in {[k \in CaseIds |-> NoCase]}
                     \cup {[k \in CaseIds |->
                              IF k \in NewIds THEN NoCase
                              ELSE [NewCase("T1") EXCEPT !.billing_status = b]] :
                           b \in BillingStatuses} :
          cases = seeded
    /\ case_results = {}
    /\ audit_logs = {}
    /\ access_logs = <<>>
    /\ lock = [k \in CaseIds |-> "free"]
    /\ req = [r \in Reqs |-> IdleReq]
    /\ nextCase = 0
    /\ direct = 0
    /\ dstmt = NoDirect
    /\ wins = [k \in CaseIds |-> 0]
    /\ GateIdle
    /\ McareIdle
    /\ api_keys = <<>>
    /\ KeysIdle

\* POST /cases, and usage rows inserted by SQL in two batches: up to the
\* limit, then one row past it
NextBilling ==
    \/ \E r \in Reqs, t \in Tenants : CreateInsert(r, t)
    \/ \E r \in Reqs : CommitTx(r)
    \/ \E t \in Tenants :
          InsertUsageEvents(t, IF UsageCount(t) = 0 THEN FreeTierLimit ELSE 1)

SpecBilling == InitBilling /\ [][NextBilling]_vars

(***************************************************************************)
(* The log tables audit_logs and access_logs, written by the case engine   *)
(* and read or attacked by SQL in a session whose app.tenant_id is g.      *)
(* access_logs carries the tenant policy; audit_logs has no row level      *)
(* security and a BEFORE UPDATE OR DELETE row trigger.                     *)
(***************************************************************************)
LogTables == {"audit_logs", "access_logs"}

LogTable(tbl) ==
    IF tbl = "audit_logs" THEN audit_logs
    ELSE {access_logs[i] : i \in DOMAIN access_logs}

\* the qualification row level security adds for a row of the table
RowQual(tbl, cmd, g, row) ==
    IF tbl \in RlsTables THEN PolicyUsing(tbl, cmd, g, row.tenant_id) ELSE "t"

\* SELECT * FROM tbl
LogSelect(g, tbl) ==
    /\ LET vis == {x \in LogTable(tbl) : RowQual(tbl, "SELECT", g, x) = "t"}
           err == \E x \in LogTable(tbl) : RowQual(tbl, "SELECT", g, x) = SqlError
       IN  last' = [NoStmt EXCEPT !.kind = "select", !.tbl = tbl, !.g = g,
                       !.outcome = IF err THEN "error" ELSE "ok",
                       !.result = IF err THEN {} ELSE vis]
    /\ UNCHANGED <<rows, nextId, conn>>
    /\ UNCHANGED <<caseVars, extVars>>

\* the trigger created BEFORE UPDATE only
PreventAuditUpdateOnly(op) == op = "DELETE"

\* prevent_audit_modification(): TRUE when the row operation goes through,
\* FALSE when the trigger raises
PreventAuditModification(op) == FALSE

\* UPDATE audit_logs SET action = 'TAMPERED' WHERE <a condition the rows S meet>
AuditUpdate(g, S) ==
    /\ LET reached == {x \in S : RowQual("audit_logs", "UPDATE", g, x) = "t"}
           through == reached # {} /\ PreventAuditModification("UPDATE")
       IN  /\ audit_logs' = IF through
                            THEN (audit_logs \ reached)
                                 \cup {[x EXCEPT !.action = "TAMPERED"] : x \in reached}
                            ELSE audit_logs
           /\ last' = [NoStmt EXCEPT !.kind = "update", !.tbl = "audit_logs", !.g = g,
                          !.outcome = IF reached = {} THEN "norows"
                                      ELSE IF through THEN "ok" ELSE "error",
                          !.result = reached,
                          !.changed = (audit_logs' # audit_logs)]
    /\ UNCHANGED <<rows, nextId, conn>>
    /\ UNCHANGED <<cases, case_results, access_logs, lock, req, nextCase, direct, dstmt, wins>>
    /\ UNCHANGED extVars

\* DELETE FROM audit_logs WHERE <a condition the rows S meet>
AuditDelete(g, S) ==
    /\ LET reached == {x \in S : RowQual("audit_logs", "DELETE", g, x) = "t"}
           through == reached # {} /\ PreventAuditModification("DELETE")
       IN  /\ audit_logs' = IF through THEN audit_logs \ reached ELSE audit_logs
           /\ last' = [NoStmt EXCEPT !.kind = "delete", !.tbl = "audit_logs", !.g = g,
                          !.outcome = IF reached = {} THEN "norows"
                                      ELSE IF through THEN "ok" ELSE "error",
                          !.result = reached,
                          !.changed = (audit_logs' # audit_logs)]
    /\ UNCHANGED <<rows, nextId, conn>>
    /\ UNCHANGED <<cases, case_results, access_logs, lock, req, nextCase, direct, dstmt, wins>>
    /\ UNCHANGED extVars

\* the case engine serving both tenants, and SQL on its log tables
NextLogs ==
    \/ \E r \in Client, t \in Tenants : CreateInsert(r, t)
    \/ \E r \in Client : CommitTx(r)
    \/ \E r \in Client, t \in Tenants, k \in CaseIds : FinalizeLoad(r, t, k)
    \/ \E r \in Client : FinalizeInsert(r)
    \/ \E r \in Client : FinalizeReadBack(r)
    \/ \E r \in Client : FinalizeUpdate(r)
    \/ \E r \in Client : FinalizeAudit(r)
    \/ \E r \in Client, t \in Tenants, k \in CaseIds : VerifyLoad(r, t, k)
    \/ \E r \in Client : VerifyUpdate(r)
    \/ \E r \in Client : VerifyLog(r)
    \/ \E r \in Client, t \in Tenants, k \in CaseIds : GetLoad(r, t, k)
    \/ \E g \in GucValues, tbl \in LogTables : LogSelect(g, tbl)
    \/ \E g \in GucValues, S \in SUBSET audit_logs : AuditUpdate(g, S)
    \/ \E g \in GucValues, S \in SUBSET audit_logs : AuditDelete(g, S)

SpecLogs == InitCase /\ [][NextLogs]_vars

(***************************************************************************)
(* The rate limiter: clincore.core.rate_limit.TenantRateLimiter.  A call   *)
(* of is_allowed never suspends between reading the clock and leaving the  *)
(* bucket's lock (a free asyncio.Lock is taken without yielding, and       *)
(* nothing awaits while a lock is held), so on the event loop a call is    *)
(* one step.  Time is counted in ticks; the clock may stand still between  *)
(* two calls.                                                              *)
(***************************************************************************)
\* TenantRateLimiter(limit, window_seconds): requests per window, window in ticks
Limit == 2
Window == 2
\* evict_inactive(idle_seconds), in ticks
IdleSeconds == 3
\* the instants the clock passes through
Instants == 0 .. 4
\* the keys is_allowed is called with
LimiterKeys == Tenants

\* one deque for every key
GetBucketShared(bs, key) ==
    [dict |-> IF "shared" \in DOMAIN bs THEN bs ELSE bs @@ ("shared" :> <<>>),
     slot |-> "shared"]

\* _get_bucket: the dict, holding a deque for key, and where key's deque is
GetBucket(bs, key) ==
    [dict |-> IF key \in DOMAIN bs THEN bs ELSE bs @@ (key :> <<>>),
     slot |-> key]

\* eviction that keeps an instant exactly one window old
RECURSIVE EvictStrict(_, _)
EvictStrict(bucket, cutoff) ==
    IF bucket # <<>> /\ Head(bucket) < cutoff
    THEN EvictStrict(Tail(bucket), cutoff)
    ELSE bucket

\* while bucket and bucket[0] <= cutoff: bucket.popleft()
RECURSIVE Evict(_, _)
Evict(bucket, cutoff) ==
    IF bucket # <<>> /\ Head(bucket) <= cutoff
    THEN Evict(Tail(bucket), cutoff)
    ELSE bucket

\* is_allowed(key) at instant now on the buckets bs: the answer and the buckets after
IsAllowed(bs, key, now) ==
    LET got == GetBucket(bs, key)
        cutoff == now - Window
        kept == Evict(got.dict[got.slot], cutoff)
    IN  IF Len(kept) >= Limit
        THEN [allowed |-> FALSE, buckets |-> [got.dict EXCEPT ![got.slot] = kept]]
        ELSE [allowed |-> TRUE,
              buckets |-> [got.dict EXCEPT ![got.slot] = Append(kept, now)]]

\* evict_inactive at instant now: the buckets that stay
EvictInactiveOf(bs, now) ==
    LET cutoff == now - IdleSeconds
        stale == {k \in DOMAIN bs : bs[k] = <<>> \/ bs[k][Len(bs[k])] <= cutoff}
    IN  [k \in DOMAIN bs \ stale |-> bs[k]]

\* how many attempts of key were admitted in (t - Window, t]
Recent(key, t) ==
    Cardinality({i \in DOMAIN admits[key] :
                    admits[key][i] > t - Window /\ admits[key][i] <= t})

\* the limiter's part of a call of is_allowed(key); solo[key] is a limiter
\* that sees the same clock and the same calls for key, and no other key's
Admission(key) ==
    LET r == IsAllowed(buckets, key, clock)
        s == IsAllowed(solo[key], key, clock)
    IN  /\ buckets' = r.buckets
        /\ solo' = [solo EXCEPT ![key] = s.buckets]
        /\ admits' = IF r.allowed THEN [admits EXCEPT ![key] = Append(@, clock)]
                     ELSE admits
        /\ lim' = [key |-> key, now |-> clock, allowed |-> r.allowed,
                   recent |-> Recent(key, clock), alone |-> s.allowed]

\* await limiter.is_allowed(key), called directly
Attempt(key) ==
    /\ Admission(key)
    /\ UNCHANGED <<clock, gate>>
    /\ UNCHANGED <<mcareVars, rlsVars, caseVars, keyVars>>

\* time passes
Tick ==
    /\ clock + 1 \in Instants
    /\ clock' = clock + 1
    /\ UNCHANGED <<buckets, admits, solo, lim, gate>>
    /\ UNCHANGED <<mcareVars, rlsVars, caseVars, keyVars>>

\* await limiter.evict_inactive(), with its default idle time
EvictInactive ==
    /\ buckets' = EvictInactiveOf(buckets, clock)
    /\ solo' = [k \in DOMAIN solo |-> EvictInactiveOf(solo[k], clock)]
    /\ UNCHANGED <<clock, admits, lim, gate>>
    /\ UNCHANGED <<mcareVars, rlsVars, caseVars, keyVars>>

NextRate ==
    \/ \E key \in LimiterKeys : Attempt(key)
    \/ Tick
    \/ EvictInactive

SpecRate == InitRls /\ [][NextRate]_vars

\* the idle times evict_inactive is called with: shorter than the window,
\* the window, and the default
IdleTimes == {1, Window, IdleSeconds}

\* evict_inactive(idle_seconds) at instant now: the buckets that stay
EvictInactiveAfter(bs, now, idle_seconds) ==
    LET cutoff == now - idle_seconds
        stale == {k \in DOMAIN bs : bs[k] = <<>> \/ bs[k][Len(bs[k])] <= cutoff}
    IN  [k \in DOMAIN bs \ stale |-> bs[k]]

\* await limiter.evict_inactive(idle_seconds)
EvictInactiveCall(idle_seconds) ==
    /\ buckets' = EvictInactiveAfter(buckets, clock, idle_seconds)
    /\ solo' = [k \in DOMAIN solo |-> EvictInactiveAfter(solo[k], clock, idle_seconds)]
    /\ UNCHANGED <<clock, admits, lim, gate>>
    /\ UNCHANGED <<mcareVars, rlsVars, caseVars, keyVars>>

\* attempts, the clock, and evict_inactive with an idle time of the caller's
NextEvict ==
    \/ \E key \in LimiterKeys : Attempt(key)
    \/ Tick
    \/ \E idle_seconds \in IdleTimes : EvictInactiveCall(idle_seconds)

SpecEvict == InitRls /\ [][NextEvict]_vars

(***************************************************************************)
(* API keys: clincore.api.auth_api_keys, clincore.api.bootstrap and        *)
(* clincore.api.admin.  The dependency get_api_key_tenant reads on a       *)
(* connection of its own; rotate and revoke write in a later transaction,  *)
(* so other requests run between a request's authentication and its write. *)
(* A timestamp column holds 0 for NULL.                                    *)
(***************************************************************************)
\* the row ids of table api_keys, in the order the rows are inserted
KeyIds == 1 .. 3
\* the rotate and revoke requests that may be in flight together
KeySlots == {"q1", "q2"}

\* the X-API-Key header is missing
NoKey == <<>>
\* secrets.token_urlsafe(32): the n-th key handed out (never repeats), as text;
\* RawKey(0) is a key nobody was given
RawKey(n) == <<107, 48 + n>>

\* str.encode(): the UTF-8 bytes of a text
RECURSIVE StrEncode(_)
StrEncode(txt) == IF txt = <<>> THEN <<>> ELSE Utf8(Head(txt)) \o StrEncode(Tail(txt))

\* _hash_key: hashlib.sha256(raw_key.encode()).hexdigest()
HashKey(raw) == Sha256Hex(StrEncode(raw))

\* the row INSERT INTO api_keys (id, tenant_id, key_hash, label, is_active,
\* created_at) stores, without its label; role takes its default 'user',
\* revoked_at is NULL
NewKeyRow(t, raw) ==
    [tenant_id |-> t, key_hash |-> HashKey(raw), is_active |-> TRUE,
     role |-> "user", revoked_at |-> 0]

\* the key the admin tests insert: role 'admin'
SeedKeys == <<[NewKeyRow("T1", RawKey(1)) EXCEPT !.role = "admin"]>>

\* the keys a client may present: none, an unknown one, any key handed out
PresentedKeys == {NoKey, RawKey(0)} \cup {RawKey(n) : n \in 1 .. Len(api_keys)}

\* a lookup that only asks for revoked_at IS NULL
KeyValidUnlessRevoked(row) == row.revoked_at = 0

\* WHERE ... is_active = true AND revoked_at IS NULL
KeyValid(row) == row.is_active /\ row.revoked_at = 0

\* SELECT id, tenant_id FROM api_keys WHERE key_hash = :key_hash AND ... LIMIT 1
\* (key_hash is UNIQUE)
KeyLookup(keys, raw) ==
    {i \in DOMAIN keys : keys[i].key_hash = HashKey(raw) /\ KeyValid(keys[i])}

\* get_api_key_tenant: 401 without a header or without a matching row, else
\* the row's tenant; usage holds the _record_usage call of an authenticated request
GetApiKeyTenant(keys, raw, endpoint) ==
    IF raw = NoKey \/ KeyLookup(keys, raw) = {}
    THEN [code |-> 401, tenant |-> None, id |-> 0, usage |-> {}]
    ELSE LET i == CHOOSE i \in KeyLookup(keys, raw) : TRUE
         IN  [code |-> 200, tenant |-> keys[i].tenant_id, id |-> i,
              usage |-> {[tenant_id |-> keys[i].tenant_id, api_key_id |-> i,
                          endpoint |-> endpoint]}]

\* authentications whose usage task is followed to its end
MaxUsage == 3

\* the rows of usage_events that a _record_usage task wrote
Recorded ==
    [x \in {y \in BagToSet(usage_events) : y.endpoint # SqlEndpoint} |-> usage_events[x]]

\* the usage tasks scheduled so far, whatever became of them
UsageTotal ==
    BagCardinality(key_usage) + BagCardinality(Recorded) + BagCardinality(usage_failed)

\* the request fits the bound on followed tasks
UsageRoom(usage) == usage = {} \/ UsageTotal < MaxUsage

\* a task scheduled twice
EnsureFutureTwice(tasks, usage) == tasks (+) SetToBag(usage) (+) SetToBag(usage)

\* asyncio.ensure_future(_record_usage(tenant_id, api_key_id, endpoint)): one
\* more task on the event loop, nothing awaited
EnsureFuture(tasks, usage) == tasks (+) SetToBag(usage)


\* get_admin_tenant's own lookup: SELECT role FROM api_keys WHERE key_hash = :kh
\* AND is_active = true AND revoked_at IS NULL LIMIT 1, then
\* `not row or row[0] != "admin"`
HasAdminRole(keys, raw) == \E i \in KeyLookup(keys, raw) : keys[i].role = "admin"

\* get_admin_tenant when no write comes between its two lookups:
\* get_api_key_tenant, then the role lookup and 403 unless 'admin'
GetAdminTenant(keys, raw, endpoint) ==
    LET a == GetApiKeyTenant(keys, raw, endpoint)
    IN  IF a.code # 200 THEN a
        ELSE IF ~HasAdminRole(keys, raw) THEN [a EXCEPT !.code = 403, !.tenant = None]
        ELSE a

\* stage: "role" before get_admin_tenant's role lookup, "write" before the
\* transaction of the route
NoKeyReq == [op |-> None, key |-> NoKey, tenant |-> None, target |-> 0, stage |-> None]
\* requests are anonymous: a new request takes the first free slot
FreeSlot(q) == keyreq[q] = NoKeyReq /\ (q = "q2" => keyreq["q1"] # NoKeyReq)
KeyResp(op, raw, code, t, new) ==
    [op |-> op, key |-> raw, code |-> code, tenant |-> t, new_key |-> new,
     rows_seen |-> {}, keys_seen |-> {}]

\* texts as sequences of code points: "Bearer ", the secret "S", a wrong
\* secret "W", and "\u00e9"
Bearer == <<66, 101, 97, 114, 101, 114, 32>>
\* os.getenv("BOOTSTRAP_TOKEN", ""): unset, or a secret
BootTokens == {<<>>, <<83>>}
\* the Authorization header: missing, the secret with and without its scheme,
\* a wrong secret, a value with a byte above 0x7f (decoded as latin-1)
AuthHeaders == {<<>>, Bearer \o <<83>>, <<83>>, Bearer \o <<87>>, Bearer \o <<233>>}

\* str.isascii()
IsAscii(txt) == \A i \in DOMAIN txt : txt[i] < 128

\* secrets.compare_digest(a, b) on two str: TypeError unless both are ASCII
CompareDigest(a, b) ==
    IF ~IsAscii(a) \/ ~IsAscii(b) THEN "TypeError"
    ELSE IF a = b THEN "true" ELSE "false"

\* _check_token: 503 without a configured token, 401 for a missing or
\* different Authorization value, 0 when it lets the request through; an
\* exception it does not catch is answered 500
CheckToken(token, authorization) ==
    IF token = <<>> THEN 503
    ELSE IF authorization = <<>> THEN 401
    ELSE LET same == CompareDigest(authorization, Bearer \o token)
         IN  IF same = "TypeError" THEN 500
             ELSE IF same = "false" THEN 401
             ELSE 0

\* the unique indexes of table tenants: the primary key and slug
TenantsUnique == {<<"id">>, <<"slug">>}

\* INSERT ... ON CONFLICT (columns): the statement is planned only if a unique
\* index on exactly these columns exists (else SQLSTATE 42P10)
ArbiterExists(indexes, columns) == columns \in indexes

\* POST /bootstrap: _check_token, then in one transaction INSERT INTO tenants
\* ... ON CONFLICT (name) DO NOTHING, SELECT id FROM tenants WHERE name = :name
\* (t, the tenant of that name), INSERT INTO api_keys, and 201; a statement
\* that raises rolls the transaction back and the request is answered 500
Bootstrap(t, token, authorization) ==
    /\ Len(api_keys) + 1 \in KeyIds
    /\ LET code == CheckToken(token, authorization)
           raw == RawKey(Len(api_keys) + 1)
       IN  IF code # 0
           THEN /\ keyresp' = KeyResp("bootstrap", authorization, code, None, NoKey)
                /\ UNCHANGED api_keys
           ELSE IF ~ArbiterExists(TenantsUnique, <<"name">>)
           THEN /\ keyresp' = KeyResp("bootstrap", authorization, 500, None, NoKey)
                /\ UNCHANGED api_keys
           ELSE /\ api_keys' = Append(api_keys, NewKeyRow(t, raw))
                /\ keyresp' = KeyResp("bootstrap", authorization, 201, t, raw)
    /\ UNCHANGED <<key_usage, usage_events, usage_failed, keyreq, rotated>>
    /\ UNCHANGED <<mcareVars, rlsVars, caseVars, gateVars>>

\* rotate_api_key up to its transaction: tenant_id = await get_api_key_tenant(...)
RotateAuth(q, raw) ==
    LET a == GetApiKeyTenant(api_keys, raw, "/auth/api-keys/rotate")
    IN  /\ FreeSlot(q)
        /\ UsageRoom(a.usage)
        /\ key_usage' = EnsureFuture(key_usage, a.usage)
        /\ IF a.code # 200
           THEN /\ keyresp' = KeyResp("rotate", NoKey, a.code, None, NoKey)
                /\ UNCHANGED keyreq
           ELSE /\ keyreq' = [keyreq EXCEPT ![q] = [op |-> "rotate", key |-> raw,
                                                    tenant |-> a.tenant, target |-> 0,
                                                    stage |-> "write"]]
                /\ UNCHANGED keyresp
        /\ UNCHANGED <<api_keys, usage_events, usage_failed, rotated>>
        /\ UNCHANGED <<mcareVars, rlsVars, caseVars, gateVars>>

\* a rotation whose UPDATE matches no row
RotateTargetsNothing(row, old_hash) == FALSE

\* UPDATE api_keys SET is_active = false WHERE key_hash = :old_hash
RotateTarget(row, old_hash) == row.key_hash = old_hash

\* an INSERT left to a later transaction
InsertKeyLater(keys, row) == keys

\* INSERT INTO api_keys (...) VALUES (...) in the transaction of the UPDATE
InsertKey(keys, row) == Append(keys, row)

\* rotate_api_key's transaction: the UPDATE, the INSERT of the new key for the
\* authenticated tenant, and the 200 with the new raw key
RotateCommit(q) ==
    /\ keyreq[q].op = "rotate"
    /\ Len(api_keys) + 1 \in KeyIds
    /\ LET old_hash == HashKey(keyreq[q].key)
           new_raw == RawKey(Len(api_keys) + 1)
           updated == [i \in DOMAIN api_keys |->
                          IF RotateTarget(api_keys[i], old_hash)
                          THEN [api_keys[i] EXCEPT !.is_active = FALSE]
                          ELSE api_keys[i]]
       IN  /\ api_keys' = InsertKey(updated, NewKeyRow(keyreq[q].tenant, new_raw))
           /\ keyresp' = KeyResp("rotate", keyreq[q].key, 200, keyreq[q].tenant, new_raw)
           /\ rotated' = rotated \cup {keyreq[q].key}
    /\ keyreq' = [keyreq EXCEPT ![q] = NoKeyReq]
    /\ UNCHANGED <<key_usage, usage_events, usage_failed>>
    /\ UNCHANGED <<mcareVars, rlsVars, caseVars, gateVars>>

\* a revocation that does not ask whether the key is revoked already
RevokeTargetAgain(keys, i, key_id, tid) == i = key_id /\ keys[i].tenant_id = tid

\* WHERE id = :key_id AND tenant_id = :tid AND revoked_at IS NULL
RevokeTarget(keys, i, key_id, tid) ==
    i = key_id /\ keys[i].tenant_id = tid /\ keys[i].revoked_at = 0

\* revoke_api_key's transaction: UPDATE api_keys SET revoked_at = now(),
\* is_active = false WHERE ... RETURNING id; 404 when no row came back
RevokeCommit(q) ==
    /\ keyreq[q].op = "revoke"
    /\ keyreq[q].stage = "write"
    /\ LET hit == {i \in DOMAIN api_keys :
                      RevokeTarget(api_keys, i, keyreq[q].target, keyreq[q].tenant)}
       IN  /\ api_keys' = [i \in DOMAIN api_keys |->
                              IF i \in hit
                              THEN [api_keys[i] EXCEPT !.revoked_at = Now(@),
                                                       !.is_active = FALSE]
                              ELSE api_keys[i]]
           /\ keyresp' = KeyResp("revoke", keyreq[q].key, IF hit = {} THEN 404 ELSE 200,
                                 keyreq[q].tenant, NoKey)
    /\ keyreq' = [keyreq EXCEPT ![q] = NoKeyReq]
    /\ UNCHANGED <<key_usage, usage_events, usage_failed, rotated>>
    /\ UNCHANGED <<mcareVars, rlsVars, caseVars, gateVars>>


(***************************************************************************)
(* The usage log and the admin reads: auth_api_keys._record_usage, and     *)
(* clincore.api.admin.get_usage and list_api_keys behind get_admin_tenant. *)
(***************************************************************************)
\* the rows of usage_events a session bound to tenant_id reads: the table's
\* policy qualifies every SELECT
VisibleUsage(tenant_id) ==
    {x \in BagToSet(usage_events) :
        PolicyUsing("usage_events", "SELECT", tenant_id, x.tenant_id) = "t"}


\* SELECT ... FROM api_keys WHERE tenant_id = :tid AND revoked_at IS NULL
ListedKeys(keys, tid) ==
    {i \in DOMAIN keys : keys[i].tenant_id = tid /\ keys[i].revoked_at = 0}

\* get_usage past get_admin_tenant: the three aggregates over usage_events in
\* tenant_session(tenant_id)
UsageResponse(raw, tenant_id) ==
    [KeyResp("usage", raw, 200, tenant_id, NoKey) EXCEPT
        !.rows_seen = VisibleUsage(tenant_id)]

\* list_api_keys past get_admin_tenant
ListResponse(raw, tenant_id) ==
    [KeyResp("keys", raw, 200, tenant_id, NoKey) EXCEPT
        !.keys_seen = ListedKeys(api_keys, tenant_id)]

\* GET /admin/usage while no key is written
GetUsage(raw) ==
    LET a == GetAdminTenant(api_keys, raw, "/admin/usage")
    IN  [code |-> a.code, usage |-> a.usage,
         resp |-> IF a.code = 200 THEN UsageResponse(raw, a.tenant)
                  ELSE KeyResp("usage", raw, a.code, a.tenant, NoKey)]

\* the paths of the admin routes
AdminEndpoint(op) ==
    IF op = "usage" THEN "/admin/usage"
    ELSE IF op = "keys" THEN "/admin/api-keys"
    ELSE "/admin/api-keys/revoke"

\* an admin route up to the end of get_api_key_tenant, the dependency of
\* get_admin_tenant: 401, or the usage task and the tenant
AdminAuth(q, raw, op, key_id) ==
    LET a == GetApiKeyTenant(api_keys, raw, AdminEndpoint(op))
    IN  /\ FreeSlot(q)
        /\ UsageRoom(a.usage)
        /\ key_usage' = EnsureFuture(key_usage, a.usage)
        /\ IF a.code # 200
           THEN /\ keyresp' = KeyResp(op, NoKey, a.code, None, NoKey)
                /\ UNCHANGED keyreq
           ELSE /\ keyreq' = [keyreq EXCEPT ![q] = [op |-> op, key |-> raw,
                                                    tenant |-> a.tenant, target |-> key_id,
                                                    stage |-> "role"]]
                /\ UNCHANGED keyresp
        /\ UNCHANGED <<api_keys, usage_events, usage_failed, rotated>>
        /\ UNCHANGED <<mcareVars, rlsVars, caseVars, gateVars>>

\* the body of get_admin_tenant on a connection of its own, and for the two
\* reads the route behind it: 403, the aggregates, the listing, or on to
\* revoke_api_key's transaction
AdminRoleCheck(q) ==
    /\ keyreq[q].stage = "role"
    /\ IF ~HasAdminRole(api_keys, keyreq[q].key)
       THEN /\ keyresp' = KeyResp(keyreq[q].op, NoKey, 403, None, NoKey)
            /\ keyreq' = [keyreq EXCEPT ![q] = NoKeyReq]
       ELSE IF keyreq[q].op = "revoke"
       THEN /\ keyreq' = [keyreq EXCEPT ![q].stage = "write"]
            /\ UNCHANGED keyresp
       ELSE /\ keyresp' = IF keyreq[q].op = "usage"
                          THEN UsageResponse(keyreq[q].key, keyreq[q].tenant)
                          ELSE ListResponse(keyreq[q].key, keyreq[q].tenant)
            /\ keyreq' = [keyreq EXCEPT ![q] = NoKeyReq]
    /\ UNCHANGED <<api_keys, key_usage, usage_events, usage_failed, rotated>>
    /\ UNCHANGED <<mcareVars, rlsVars, caseVars, gateVars>>


\* a _record_usage task runs: tenant_session(tenant_id), the INSERT under the
\* table's policy, COMMIT; any exception (stored is FALSE when the database
\* refuses or is unreachable) is logged as a warning and swallowed
RecordUsage(task, stored) ==
    /\ BagIn(task, key_usage)
    /\ key_usage' = key_usage (-) SetToBag({task})
    /\ IF stored /\ PolicyCheck("usage_events", "INSERT", task.tenant_id, task.tenant_id) = "t"
       THEN /\ usage_events' = usage_events (+) SetToBag({task})
            /\ UNCHANGED usage_failed
       ELSE /\ usage_failed' = usage_failed (+) SetToBag({task})
            /\ UNCHANGED usage_events
    /\ UNCHANGED <<api_keys, keyreq, keyresp, rotated>>
    /\ UNCHANGED <<mcareVars, rlsVars, caseVars, gateVars>>

\* the seeded admin key, no request in flight, every other part idle
InitKeys ==
    /\ rows = {}
    /\ nextId = 1
    /\ conn = [c \in Conns |-> FreshConn]
    /\ last = NoStmt
    /\ CaseIdle
    /\ GateIdle
    /\ McareIdle
    /\ api_keys = SeedKeys
    /\ key_usage = EmptyBag
    /\ usage_events = EmptyBag
    /\ usage_failed = EmptyBag
    /\ keyreq = [q \in KeySlots |-> NoKeyReq]
    /\ keyresp = NoKeyResp
    /\ rotated = {}


\* the tasks the event loop holds
PendingUsage == BagToSet(key_usage)

\* the seeded admin key of T1 and a key of T2 with the default role 'user'
AdminKeys == Append(SeedKeys, NewKeyRow("T2", RawKey(2)))

\* rows the tests insert by SQL for each tenant
SeedUsage ==
    SetToBag({[tenant_id |-> api_keys[i].tenant_id, api_key_id |-> i,
               endpoint |-> SqlEndpoint] : i \in DOMAIN api_keys})

\* two tenants with a key and usage rows each, no request in flight
InitAdmin ==
    /\ rows = {}
    /\ nextId = 1
    /\ conn = [c \in Conns |-> FreshConn]
    /\ last = NoStmt
    /\ CaseIdle
    /\ GateIdle
    /\ McareIdle
    /\ api_keys = AdminKeys
    /\ key_usage = EmptyBag
    /\ usage_events = SeedUsage
    /\ usage_failed = EmptyBag
    /\ keyreq = [q \in KeySlots |-> NoKeyReq]
    /\ keyresp = NoKeyResp
    /\ rotated = {}

\* bootstrap, rotation and revocation on the keys of two tenants
NextKeys ==
    \/ \E t \in Tenants, token \in BootTokens, authorization \in AuthHeaders :
          Bootstrap(t, token, authorization)
    \/ \E q \in KeySlots, raw \in PresentedKeys : RotateAuth(q, raw)
    \/ \E q \in KeySlots : RotateCommit(q)
    \/ \E q \in KeySlots, raw \in PresentedKeys, key_id \in DOMAIN api_keys :
          AdminAuth(q, raw, "revoke", key_id)
    \/ \E q \in KeySlots : AdminRoleCheck(q)
    \/ \E q \in KeySlots : RevokeCommit(q)

SpecKeys == InitAdmin /\ [][NextKeys]_vars

\* rotate requests on the one seeded key and on the keys rotation hands out
NextRotate ==
    \/ \E q \in KeySlots, raw \in PresentedKeys : RotateAuth(q, raw)
    \/ \E q \in KeySlots : RotateCommit(q)
    \/ \E task \in PendingUsage, stored \in BOOLEAN : RecordUsage(task, stored)

SpecRotate == InitKeys /\ [][NextRotate]_vars

\* the admin routes on the keys and usage rows of two tenants
NextAdmin ==
    \/ \E q \in KeySlots, raw \in PresentedKeys, op \in {"usage", "keys"} :
          AdminAuth(q, raw, op, 0)
    \/ \E q \in KeySlots, raw \in PresentedKeys, key_id \in DOMAIN api_keys :
          AdminAuth(q, raw, "revoke", key_id)
    \/ \E q \in KeySlots : AdminRoleCheck(q)
    \/ \E q \in KeySlots : RevokeCommit(q)

SpecAdmin == InitAdmin /\ [][NextAdmin]_vars

\* authenticated requests and the usage tasks they leave on the event loop
NextUsage ==
    \/ \E q \in KeySlots, raw \in PresentedKeys : AdminAuth(q, raw, "usage", 0)
    \/ \E q \in KeySlots : AdminRoleCheck(q)
    \/ \E task \in PendingUsage, stored \in BOOLEAN : RecordUsage(task, stored)

SpecUsage == InitAdmin /\ [][NextUsage]_vars

\* the event loop runs every task it holds
SpecUsageFair ==
    SpecUsage /\ WF_vars(\E task \in PendingUsage, stored \in BOOLEAN : RecordUsage(task, stored))

(***************************************************************************)
(* The rate gate: clincore.core.rate_limit.RateLimitMiddleware, installed  *)
(* with app.add_middleware.  A middleware runs before routing, so before   *)
(* any dependency of the route: request.state holds what the middlewares   *)
(* outside it have set.  A path is the sequence of its segments.           *)
(***************************************************************************)
\* RateLimitMiddleware._SKIP_PATHS
SkipPaths ==
    {<<"health">>, <<"health", "live">>, <<"health", "ready">>, <<"version">>,
     <<"score">>, <<"docs">>, <<"openapi.json">>, <<"redoc">>}

\* path.startswith("/mcare"), for the paths of the routers
StartsWithMcare(path) == path # <<>> /\ Head(path) = "mcare"

\* the requests sent: a health probe, the mcare page, an admin route
GatePaths == {<<"health", "live">>, <<"mcare">>, <<"admin", "usage">>}
\* the X-Tenant-ID header: absent, or the tenant of the seeded key
GateHeaders == {"", "T1"}

\* the X-Request-ID a client sends: none, "c", " c " (header text as code
\* points, <<>> for an absent header)
XRequestIds == {<<>>, <<99>>, <<32, 99, 32>>}
\* what str(uuid.uuid4()) may return
Uuids == {<<117, 49>>, <<117, 50>>}

RECURSIVE LStrip(_)
LStrip(txt) == IF txt # <<>> /\ Head(txt) = 32 THEN LStrip(Tail(txt)) ELSE txt

RECURSIVE RStrip(_)
RStrip(txt) ==
    IF txt # <<>> /\ txt[Len(txt)] = 32 THEN RStrip(SubSeq(txt, 1, Len(txt) - 1)) ELSE txt

\* str.strip()
Strip(txt) == LStrip(RStrip(txt))

\* the values uuid4 may return in a request that sent this header: it is
\* called only when the stripped header is empty
Uuid4(sent) == IF Strip(sent) = <<>> THEN Uuids ELSE {<<>>}

\* raw_id = request.headers.get("X-Request-ID", "").strip();
\* request_id = raw_id if raw_id else str(uuid.uuid4())
RequestId(sent, uuid) == IF Strip(sent) # <<>> THEN Strip(sent) ELSE uuid

\* the add_middleware calls of the application, in the order they are made
AddMiddleware == <<"RequestIDMiddleware", "RateLimitMiddleware">>

\* the stack those calls build, outermost first: each add_middleware puts
\* its class in front of the ones added before
MiddlewareStack(added) == [i \in 1 .. Len(added) |-> added[Len(added) + 1 - i]]

\* middleware a wraps middleware b
Wraps(stack, a, b) ==
    \E i, j \in DOMAIN stack : i < j /\ stack[i] = a /\ stack[j] = b

\* request.state when RateLimitMiddleware.dispatch runs: request_id is there
\* only if RequestIDMiddleware has run before it; no code assigns
\* request.state.tenant_id
RequestState(request_id) ==
    IF Wraps(MiddlewareStack(AddMiddleware), "RequestIDMiddleware", "RateLimitMiddleware")
    THEN [request_id |-> request_id] ELSE <<>>

\* getattr(state, name, default)
GetAttr(state, name, default) == IF name \in DOMAIN state THEN state[name] ELSE default

\* getattr(request.state, "tenant_id", "") or request.headers.get("X-Tenant-ID", "")
GateTenant(state, hdr) ==
    LET s == GetAttr(state, "tenant_id", "") IN IF s # "" THEN s ELSE hdr

\* path in self._SKIP_PATHS or path.startswith("/mcare")
Skipped(path) == path \in SkipPaths \/ StartsWithMcare(path)

\* a gate that answers 429 after the handler has run
CallsNextAlways(skipped, tenant_id, allowed) == TRUE

\* dispatch reaches `return await call_next(request)`
CallsNext(skipped, tenant_id, allowed) == skipped \/ tenant_id = "" \/ allowed

\* the application behind the gate: /health/live and the mcare page answer
\* 200 without a tenant; GET /admin/usage runs get_admin_tenant and reads
\* usage_events in tenant_session(tenant_id)
Downstream(path, raw) ==
    IF path = <<"admin", "usage">> THEN GetUsage(raw)
    ELSE [code |-> 200, usage |-> {}, resp |-> keyresp]

\* the X-Request-ID header of the response: set by RequestIDMiddleware on
\* the response call_next returned to it, so not on a response made by a
\* middleware that wraps it (<<>>: no header)
ResponseHeader(request_id, made_by_gate) ==
    IF made_by_gate /\ ~Wraps(MiddlewareStack(AddMiddleware), "RequestIDMiddleware",
                              "RateLimitMiddleware")
    THEN <<>> ELSE request_id

\* request_id of a structured error body (<<>>: null): the gate's 429 reads
\* getattr(request.state, "request_id", None), _err_body of the exception
\* handlers reads it behind RequestIDMiddleware
BodyRequestId(request_id, made_by_gate) ==
    IF made_by_gate THEN GetAttr(RequestState(request_id), "request_id", <<>>)
    ELSE request_id

\* a request for path with X-Tenant-ID hdr, X-API-Key raw and X-Request-ID
\* sent through RequestIDMiddleware, RateLimitMiddleware.dispatch and what
\* runs behind them; uuid is what uuid4 returns if it is called
Request(path, hdr, raw, sent, uuid) ==
    LET skipped == Skipped(path)
        request_id == RequestId(sent, uuid)
        tenant_id == GateTenant(RequestState(request_id), hdr)
        asked == ~skipped /\ tenant_id # ""
        allowed == IF asked THEN IsAllowed(buckets, tenant_id, clock).allowed ELSE TRUE
        next == CallsNext(skipped, tenant_id, allowed)
        down == Downstream(path, raw)
    IN  /\ IF asked THEN Admission(tenant_id) ELSE UNCHANGED <<buckets, solo, admits, lim>>
        /\ IF next
           THEN /\ UsageRoom(down.usage)
                /\ key_usage' = EnsureFuture(key_usage, down.usage)
                /\ keyresp' = down.resp
           ELSE UNCHANGED <<key_usage, keyresp>>
        /\ gate' = [path |-> path, tenant |-> hdr, key |-> raw,
                    counted |-> IF asked THEN tenant_id ELSE None,
                    code |-> IF asked /\ ~allowed THEN 429 ELSE down.code,
                    ran |-> next, sent |-> sent,
                    x_request_id |-> ResponseHeader(request_id, ~next),
                    error |-> ~next \/ down.code >= 400,
                    request_id |-> IF ~next \/ down.code >= 400
                                   THEN BodyRequestId(request_id, ~next) ELSE <<>>]
        /\ UNCHANGED <<clock, api_keys, usage_events, usage_failed, keyreq, rotated>>
        /\ UNCHANGED <<mcareVars, rlsVars, caseVars>>

\* the same request from a client that sends no X-Request-ID
Dispatch(path, hdr, raw) == Request(path, hdr, raw, <<>>, <<117, 49>>)

NextGate ==
    \/ \E path \in GatePaths, hdr \in GateHeaders, raw \in PresentedKeys :
          Dispatch(path, hdr, raw)
    \/ Tick

SpecGate == InitKeys /\ [][NextGate]_vars

\* requests without a key, with and without a correlation id
NextRequestId ==
    \/ \E path \in GatePaths, hdr \in GateHeaders, sent \in XRequestIds :
          \E uuid \in Uuid4(sent) : Request(path, hdr, NoKey, sent, uuid)
    \/ Tick

SpecRequestId == InitKeys /\ [][NextRequestId]_vars

(***************************************************************************)
(* Scoring and feedback: clincore.mcare_engine and the two feedback        *)
(* endpoints.  Scoring reads the repertory tables of the SQLite file, the  *)
(* statistics cached next to it and its parameters; the grade, bucket and  *)
(* coverage multipliers, which depend on the parameter file only, are      *)
(* taken as 1.                                                             *)
(***************************************************************************)
\* scoring runs recorded per input, feedback rows per endpoint
MaxRuns == 2
MaxFeedback == 2

\* rows of a table of synthesis.db ({} while the table does not exist)
TableRows(db, tbl) == IF tbl \in DOMAIN db THEN db[tbl] ELSE {}

\* a scoring that counts every feedback row as a repertory entry
EngineRowsWithFeedback(db) ==
    db.symptom_remedies \cup
        {[symptom_id |-> 1, remedy |-> f.chosen_remedy, degree |-> 3 + f.id] :
            f \in TableRows(db, "clinical_feedback")}

\* SELECT ... FROM symptom_remedies: the rows scoring reads
EngineRows(db) == db.symptom_remedies

\* twice the median of a set of counts, given as the bag of their values
RECURSIVE SortCounts(_)
SortCounts(b) ==
    IF b = EmptyBag THEN <<>>
    ELSE LET m == CHOOSE x \in BagToSet(b) : \A y \in BagToSet(b) : x <= y
         IN  <<m>> \o SortCounts(b (-) SetToBag({m}))

\* _median, doubled: v[mid] for an odd number of values, else v[mid-1] + v[mid]
Median2(b) ==
    LET v == SortCounts(b)
        n == Len(v)
        mid == n \div 2
    IN  IF n = 0 THEN 2
        ELSE IF n % 2 = 1 THEN 2 * v[mid + 1] ELSE v[mid] + v[mid + 1]

\* SELECT remedy, COUNT(*) FROM symptom_remedies GROUP BY remedy and its median
ComputeStats(db) ==
    LET remedies == {r.remedy : r \in EngineRows(db)}
        freq_map == [x \in remedies |-> Cardinality({r \in EngineRows(db) : r.remedy = x})]
        freqs == [n \in {freq_map[x] : x \in remedies} |->
                     Cardinality({x \in remedies : freq_map[x] = n})]
    IN  [median2 |-> Median2(freqs), freq_map |-> freq_map]

\* get_cached_stats: the cache file if there is one, else the table
GetCachedStats(db, cache) == IF cache # <<>> THEN cache[1] ELSE ComputeStats(db)

\* mcare_score of a remedy, in hundredths: the degrees of the case's
\* symptoms over freq / median_freq
McareScore(db, stats, ids, remedy) ==
    LET sids == {ids[i] : i \in DOMAIN ids}
        hit == {r \in EngineRows(db) : r.symptom_id \in sids /\ r.remedy = remedy}
        RECURSIVE Sum(_)
        Sum(S) == IF S = {} THEN 0
                  ELSE LET r == CHOOSE r \in S : TRUE IN r.degree + Sum(S \ {r})
        freq == IF remedy \in DOMAIN stats.freq_map THEN stats.freq_map[remedy] ELSE 0
    IN  IF freq > 0 THEN (100 * Sum(hit) * stats.median2) \div (2 * freq)
        ELSE 100 * Sum(hit)

\* df.sort_values("mcare_score", ascending=False)
RECURSIVE SortByScore(_, _)
SortByScore(remedies, score) ==
    IF remedies = {} THEN <<>>
    ELSE LET top == CHOOSE x \in remedies : \A y \in remedies : score[x] >= score[y]
         IN  <<[remedy |-> top, score |-> score[top]]>> \o
             SortByScore(remedies \ {top}, score)

\* score_case(DB_PATH, case_df, ...): the ranking of the remedies the case's
\* symptoms list
ScoreCase(db, stats, ids) ==
    LET sids == {ids[i] : i \in DOMAIN ids}
        remedies == {r.remedy : r \in {x \in EngineRows(db) : x.symptom_id \in sids}}
    IN  SortByScore(remedies, [x \in remedies |-> McareScore(db, stats, ids, x)])

\* rows of mcare_feedback in PostgreSQL
McareFeedbackRows == {r \in rows : r.tbl = "mcare_feedback"}

\* POST /mcare/auto (and /mcare/score) on a case: the statistics come from
\* the cache file, which the first run writes
McareAuto(ids) ==
    /\ Len(scored[ids]) < MaxRuns
    /\ LET stats == GetCachedStats(synthesis, stats_cache)
       IN  /\ stats_cache' = IF stats_cache = <<>> THEN <<ComputeStats(synthesis)>>
                             ELSE stats_cache
           /\ scored' = [scored EXCEPT ![ids] = Append(@,
                            [results |-> ScoreCase(synthesis, stats, ids),
                             clinical_feedback |->
                                 Cardinality(TableRows(synthesis, "clinical_feedback")),
                             mcare_feedback |-> Cardinality(McareFeedbackRows)])]
    /\ UNCHANGED synthesis
    /\ UNCHANGED <<rlsVars, caseVars, gateVars, keyVars>>

\* POST /mcare/feedback of the UI router: validation, CREATE TABLE IF NOT
\* EXISTS clinical_feedback, INSERT INTO clinical_feedback in synthesis.db
McareFeedback(case_hash, chosen_remedy, tenant_id) ==
    /\ Cardinality(TableRows(synthesis, "clinical_feedback")) < MaxFeedback
    /\ synthesis' =
          IF case_hash = "" \/ chosen_remedy = "" THEN synthesis
          ELSE [tbl \in DOMAIN synthesis \cup {"clinical_feedback"} |->
                   IF tbl = "clinical_feedback"
                   THEN TableRows(synthesis, tbl) \cup
                           {[id |-> Cardinality(TableRows(synthesis, tbl)) + 1,
                             case_hash |-> case_hash, suggested_top1 |-> None,
                             chosen_remedy |-> chosen_remedy, tenant_id |-> tenant_id]}
                   ELSE synthesis[tbl]]
    /\ UNCHANGED <<stats_cache, scored>>
    /\ UNCHANGED <<rlsVars, caseVars, gateVars, keyVars>>

\* POST /mcare/feedback of the API router with X-Tenant-ID: INSERT INTO
\* mcare_feedback in tenant_session(tenant_id); 401 without the header
PostFeedback(x_tenant_id) ==
    /\ nextId <= MaxRows
    /\ LET ok == x_tenant_id # "" /\ PolicyCheck("mcare_feedback", "INSERT", x_tenant_id,
                                                 x_tenant_id) = "t"
       IN  /\ rows' = IF ok THEN rows \cup {[id |-> nextId, tbl |-> "mcare_feedback",
                                             tenant_id |-> x_tenant_id]}
                      ELSE rows
           /\ nextId' = IF ok THEN nextId + 1 ELSE nextId
    /\ UNCHANGED <<conn, last>>
    /\ UNCHANGED <<caseVars, extVars>>

NextMcare ==
    \/ \E ids \in CaseInputs : McareAuto(ids)
    \/ \E chosen_remedy \in ChosenRemedies : McareFeedback("h1", chosen_remedy, "default")
    \/ \E x_tenant_id \in {"", "T1"} : PostFeedback(x_tenant_id)

SpecMcare == InitRls /\ [][NextMcare]_vars

(***************************************************************************)
(* Claims on tenant isolation (checked under SpecRls)                      *)
(***************************************************************************)
\* C1: a read executed in a transaction bound to tenant U returns no row of
\* another tenant, on any tenant-partitioned table and after any sequence of
\* operations.
C1_ReadIsolation ==
    (last.kind = "select" /\ last.g \in Tenants)
        => /\ last.outcome = "ok"
           /\ \A r \in last.result : r.tenant_id = last.g /\ r.tbl = last.tbl

\* a read bound to U while the table holds a committed row of another tenant
\* and one of U itself, which the read returns
C1_Witness ==
    /\ last.kind = "select" /\ last.g \in Tenants
    /\ \E r \in rows : r.tbl = last.tbl /\ r.tenant_id # last.g
    /\ \E r \in last.result : r.tenant_id = last.g

\* C8: a read without a tenant binding (app.tenant_id never set, or reset to
\* '' at the end of a transaction) returns zero rows on every
\* tenant-partitioned table.
C8_UnboundReadReturnsZeroRows ==
    (last.kind = "select" /\ last.g \notin Tenants)
        => (last.outcome = "ok" /\ last.result = {})

\* C9: in a transaction bound to U an INSERT, or an UPDATE of a row U can
\* see, that would produce a row of another tenant is rejected and changes
\* nothing (an UPDATE aimed at a row U cannot see matches no row); an INSERT
\* without a tenant binding is rejected.
C9_ForeignWriteRejected ==
    /\ (last.kind \in {"insert", "update"} /\ last.g \in Tenants /\ last.tenant # last.g)
          => /\ ~last.changed
             /\ last.outcome \in {"error", "norows"}
             /\ (last.kind = "insert" \/ last.old = last.g) => last.outcome = "error"
    /\ (last.kind = "insert" /\ last.g \notin Tenants)
          => (~last.changed /\ last.outcome = "error")

\* a rejected UPDATE of an own row towards another tenant
C9_Witness ==
    /\ last.kind = "update" /\ last.g \in Tenants
    /\ last.old = last.g /\ last.tenant # last.g
    /\ last.outcome = "error"

\* C10: the binding ends with its transaction: a pooled connection outside a
\* transaction, and a later transaction on it that binds no tenant, see no
\* tenant in app.tenant_id, whether the scope ended by commit or rollback.
C10_BindingEndsWithTx ==
    \A c \in Conns :
        /\ conn[c].sess \notin Tenants
        /\ ~conn[c].open => Guc(conn[c]) \notin Tenants

\* a transaction without binding on a connection that served a tenant scope
C10_Witness ==
    \E c \in Conns :
        /\ conn[c].open /\ conn[c].local = NoLocal /\ conn[c].sess = Empty
        /\ last.kind = "select" /\ last.c = c

(***************************************************************************)
(* Claims on the case lifecycle (checked under SpecApi and SpecCase)       *)
(***************************************************************************)
\* C2: when finalize requests for the same draft case run concurrently, in
\* any interleaving of their load, insert, guarded UPDATE and commit steps,
\* exactly one returns success and every other returns the 400 lifecycle
\* error.
C2_OneFinalizeWins ==
    /\ \A k \in CaseIds : wins[k] <= 1
    /\ \A r \in Reqs :
          (req[r].op = "finalize" /\ req[r].pc = "done" /\ req[r].seen.status # "none")
             => \/ req[r].resp = 200 /\ wins[req[r].k] = 1
                \/ req[r].resp = 400 /\ wins[req[r].k] = 1

\* two finalize requests that both loaded the case as a draft: one answered
\* 200, the other 400
C2_Witness ==
    /\ req["r1"].op = "finalize" /\ req["r2"].op = "finalize"
    /\ req["r1"].pc = "done" /\ req["r2"].pc = "done"
    /\ req["r1"].k = req["r2"].k
    /\ req["r1"].seen.status = "draft" /\ req["r2"].seen.status = "draft"
    /\ req["r1"].resp = 200 /\ req["r2"].resp = 400

FrozenCols ==
    {"status", "tenant_id", "patient_id", "input_payload", "random_seed", "finalized_at",
     "ranking_snapshot", "result_signature", "billing_status", "api_client_id"}

\* C4: no UPDATE changes a column of a finalized case other than
\* replay_verified_at, replay_verification_ok and
\* replay_verification_details, also when it changes a replay_* column
\* with it.
C4_FinalizedRowFrozen ==
    [][\A k \in CaseIds :
          cases[k].status = "finalized" =>
              \A c \in FrozenCols : cases'[k][c] = cases[k][c]]_vars

\* C5: a case finalized through the API verifies at any later time: after
\* further verify-replay and GET requests and tamper UPDATEs, verify-replay
\* answers 200 with ok = true and expected = computed.
C5_FinalizedCaseVerifies ==
    \A r \in Reqs :
        (req[r].op = "verify" /\ wins[req[r].k] = 1
            /\ req[r].tenant = cases[req[r].k].tenant_id)
          => /\ req[r].ok /\ req[r].expected = req[r].computed
             /\ req[r].pc = "done" => req[r].resp = 200

\* a second verify-replay of an API-finalized case, answered ok after a
\* tamper UPDATE the storage layer refused
C5_Witness ==
    \E r \in Reqs :
        /\ req[r].op = "verify" /\ req[r].pc = "done" /\ req[r].resp = 200 /\ req[r].ok
        /\ wins[req[r].k] = 1
        /\ req[r].seen.replay_verification_ok = "true"
        /\ dstmt.kind = "update" /\ dstmt.outcome = "error"

\* C6 as stated: verify-replay on a finalized case answers ok = true if the
\* SHA-256 of the canonical encoding of the stored ranking_snapshot is the
\* stored result_signature, and ok = false otherwise.
C6_VerifyOkIffHashMatches ==
    \A r \in Reqs :
        (req[r].op = "verify" /\ req[r].pc = "done" /\ req[r].seen.status = "finalized")
          => /\ req[r].resp = 200
             /\ req[r].ok <=> (Sha256Hex(Canonical(req[r].seen.ranking_snapshot.rows, FALSE))
                                  = req[r].seen.result_signature)

\* C6 as amended: so it is for a finalized case that stores a
\* ranking_snapshot; one that stores none is answered 400.
C6_VerifyOkIffHashMatchesSnapshot ==
    \A r \in Reqs :
        (req[r].op = "verify" /\ req[r].pc = "done" /\ req[r].seen.status = "finalized")
          => IF req[r].seen.ranking_snapshot.null
             THEN req[r].resp = 400
             ELSE /\ req[r].resp = 200
                  /\ req[r].ok <=>
                       (Sha256Hex(Canonical(req[r].seen.ranking_snapshot.rows, FALSE))
                           = req[r].seen.result_signature)

\* verify-replay answering ok = false for a finalized case whose stored
\* signature is not the digest of its snapshot
C6_Witness ==
    \E r \in Reqs :
        /\ req[r].op = "verify" /\ req[r].pc = "done" /\ req[r].seen.status = "finalized"
        /\ ~req[r].seen.ranking_snapshot.null
        /\ req[r].resp = 200 /\ ~req[r].ok

C11_FeedbackAppendOnly ==
    (last.tbl = "mcare_feedback" /\ last.kind \in {"update", "delete"})
        => (last.outcome # "ok" /\ ~last.changed)

\* C12: every UPDATE and every DELETE on audit_logs is refused, whatever
\* the tenant binding and whatever the row: it changes nothing, and raises
\* whenever it reaches a row.
C12_AuditWorm ==
    (last.tbl = "audit_logs" /\ last.kind \in {"update", "delete"})
        => /\ ~last.changed
           /\ last.outcome = IF last.result = {} THEN "norows" ELSE "error"

\* a DELETE of a tenant's FINALIZE audit row, issued under that tenant's
\* binding and refused
C12_Witness ==
    /\ last.tbl = "audit_logs" /\ last.kind = "delete" /\ last.outcome = "error"
    /\ \E x \in last.result : x.tenant_id = last.g /\ x.action = "FINALIZE"

\* C13: a read of audit_logs or of access_logs in a transaction bound to U
\* returns no row written for another tenant.
C13_LogReadIsolation ==
    (last.kind = "select" /\ last.tbl \in LogTables /\ last.g \in Tenants)
        => \A x \in last.result : x.tenant_id = last.g

(***************************************************************************)
(* Claims on the rate limiter (checked under SpecRate)                     *)
(***************************************************************************)

\* C14: is_allowed drops the instants no newer than now - window and then
\* admits iff fewer than limit remain: for every key and every instant t at
\* most limit admitted attempts lie in (t - window, t], and an attempt is
\* admitted exactly when fewer than limit attempts of its key were admitted
\* in the window that ends with it (so from an empty bucket the first limit
\* attempts of one window pass and the next is rejected).
C14_SlidingWindow ==
    /\ \A key \in LimiterKeys : \A t \in 0 .. clock : Recent(key, t) <= Limit
    /\ lim.key # None => (lim.allowed <=> lim.recent < Limit)

\* a rejection of a key that was admitted more than limit times over time
C14_Witness ==
    /\ lim.key # None
    /\ ~lim.allowed
    /\ lim.recent = Limit
    /\ Len(admits[lim.key]) > Limit

\* C15: the answer is_allowed gives a key is the answer of a limiter that
\* only this key ever attempts on, whatever the other keys have done.
C15_LimitLocality ==
    lim.key # None => lim.allowed = lim.alone

\* a key is admitted while another key is over its limit
C15_Witness ==
    /\ lim.key # None
    /\ lim.allowed
    /\ \E other \in LimiterKeys \ {lim.key} :
          /\ other \in DOMAIN buckets
          /\ Len(Evict(buckets[other], clock - Window)) >= Limit

(***************************************************************************)
(* Claims on the rate gate (checked under SpecGate)                        *)
(***************************************************************************)

\* the tenants a request identifies: the one its X-Tenant-ID header names and
\* the one its API key authenticates as
GateIdentities ==
    ({gate.tenant} \ {""})
    \cup {api_keys[i].tenant_id :
            i \in {j \in DOMAIN api_keys :
                     /\ gate.key # NoKey
                     /\ api_keys[j].key_hash = HashKey(gate.key)
                     /\ api_keys[j].is_active
                     /\ api_keys[j].revoked_at = 0}}

\* C16: the gate counts a request against tenant T's budget iff its path is
\* not bypassed and the request identifies T, by the X-Tenant-ID header or by
\* an API key that authenticates as T; bypassed requests and requests
\* without identity are counted against nobody.
C16_GateCountsIdentified ==
    gate.path # <<>> =>
        \A t \in Tenants :
            gate.counted = t <=> (~Skipped(gate.path) /\ t \in GateIdentities)

\* C17: a request the limiter rejects is answered 429 and the handler behind
\* the gate does not run: the step reads and writes no table.
C17_RejectedTouchesNothing ==
    /\ [](gate.code = 429 => ~gate.ran)
    /\ [][gate'.code = 429 =>
            \A path \in GatePaths, hdr \in GateHeaders, raw \in PresentedKeys :
                Dispatch(path, hdr, raw)
                    => /\ UNCHANGED keyVars
                       /\ UNCHANGED <<mcareVars, rlsVars, caseVars>>]_vars

\* an admin request with a valid admin key is answered 429 by the gate
C17_Witness ==
    /\ gate.code = 429
    /\ gate.path = <<"admin", "usage">>
    /\ gate.key = RawKey(1)
    /\ gate.counted = "T1"
    /\ ~gate.ran

(***************************************************************************)
(* Claims on API keys (checked under SpecKeys)                             *)
(***************************************************************************)

\* the rows whose key_hash is the SHA-256 of raw, active and not revoked
ValidRows(keys, raw) ==
    {i \in DOMAIN keys : /\ keys[i].key_hash = Sha256Hex(StrEncode(raw))
                         /\ keys[i].is_active
                         /\ keys[i].revoked_at = 0}

\* C18: get_api_key_tenant authenticates a presented key iff a row holds the
\* SHA-256 hex of the key with is_active = true and revoked_at NULL, and then
\* answers that row's tenant; a missing, unknown, deactivated or revoked key
\* gets 401.  A rotate request gets past its authentication exactly then.
C18_AuthIffValidRow ==
    /\ [](\A raw \in PresentedKeys :
            LET a == GetApiKeyTenant(api_keys, raw, "/auth/api-keys/rotate")
            IN  /\ a.code = 200 <=> (raw # NoKey /\ ValidRows(api_keys, raw) # {})
                /\ a.code = 200 => \A i \in ValidRows(api_keys, raw) :
                                       a.tenant = api_keys[i].tenant_id
                /\ a.code # 200 => a.code = 401)
    /\ [][\A q \in KeySlots, raw \in PresentedKeys :
            RotateAuth(q, raw) =>
                IF raw # NoKey /\ ValidRows(api_keys, raw) # {}
                THEN /\ keyreq'[q].op = "rotate"
                     /\ \A i \in ValidRows(api_keys, raw) :
                            keyreq'[q].tenant = api_keys[i].tenant_id
                ELSE /\ keyreq' = keyreq
                     /\ keyresp'.op = "rotate"
                     /\ keyresp'.code = 401]_vars

\* a deactivated key has been refused while the key that replaced it is
\* past its authentication
C18_Witness ==
    /\ keyresp.op = "rotate"
    /\ keyresp.code = 401
    /\ \E i \in DOMAIN api_keys : ~api_keys[i].is_active /\ api_keys[i].revoked_at = 0
    /\ \E q \in KeySlots : keyreq[q].op = "rotate" /\ keyreq[q].tenant = "T1"

\* C19: after a rotation answered 200 for key K of tenant T, the row of
\* hash(K) has is_active = false and K gets 401 ever after, and the key the
\* rotation returned authenticates and resolves to T.
C19_RotationRetiresOldKey ==
    /\ [](\A raw \in rotated :
            /\ \E i \in DOMAIN api_keys : api_keys[i].key_hash = HashKey(raw)
            /\ \A i \in DOMAIN api_keys :
                   api_keys[i].key_hash = HashKey(raw) => ~api_keys[i].is_active
            /\ GetApiKeyTenant(api_keys, raw, "/auth/api-keys/rotate").code = 401)
    /\ [][\A q \in KeySlots :
            RotateCommit(q) =>
                LET new == GetApiKeyTenant(api_keys', keyresp'.new_key,
                                           "/auth/api-keys/rotate")
                IN  /\ keyresp'.code = 200
                    /\ keyresp'.key = keyreq[q].key
                    /\ new.code = 200
                    /\ new.tenant = keyresp'.tenant
                    /\ \E j \in DOMAIN api_keys :
                          /\ api_keys[j].key_hash = HashKey(keyreq[q].key)
                          /\ api_keys[j].tenant_id = keyresp'.tenant]_vars

\* the seeded key was rotated, and the key that rotation returned (the row
\* it added) is past the authentication of a request of its own
C19_Witness ==
    /\ RawKey(1) \in rotated
    /\ Len(api_keys) = 3
    /\ \E q \in KeySlots :
          /\ keyreq[q].op = "rotate"
          /\ keyreq[q].key = RawKey(3)
          /\ keyreq[q].tenant = "T1"

\* C20: through bootstrap, rotate and revoke a revoked_at that is set never
\* changes, a key with revoked_at set has is_active = false, and no step sets
\* is_active of an existing key back to true.
C20_RevocationIsFinal ==
    /\ [](\A i \in DOMAIN api_keys :
            api_keys[i].revoked_at # 0 => ~api_keys[i].is_active)
    /\ [][\A i \in DOMAIN api_keys :
            /\ i \in DOMAIN api_keys'
            /\ api_keys[i].revoked_at # 0
                   => api_keys'[i].revoked_at = api_keys[i].revoked_at
            /\ ~api_keys[i].is_active => ~api_keys'[i].is_active]_vars

\* a revoked key, a key deactivated by rotation, and a revocation that
\* found nothing left to revoke
C20_Witness ==
    /\ \E i \in DOMAIN api_keys : api_keys[i].revoked_at # 0
    /\ \E i \in DOMAIN api_keys : ~api_keys[i].is_active /\ api_keys[i].revoked_at = 0
    /\ keyresp.op = "revoke"
    /\ keyresp.code = 404

(***************************************************************************)
(* Claims on the admin routes and the usage log (checked under SpecAdmin   *)
(* and SpecUsage)                                                          *)
(***************************************************************************)

\* the valid rows of raw that carry role 'admin'
AdminRows(keys, raw) == {i \in ValidRows(keys, raw) : keys[i].role = "admin"}

\* what an admin route owes the presenter of raw
AdminCode(raw) ==
    IF raw = NoKey \/ ValidRows(api_keys, raw) = {} THEN 401
    ELSE IF AdminRows(api_keys, raw) = {} THEN 403
    ELSE 200

\* C21: the admin operations (usage aggregation, key listing, key
\* revocation) succeed only for a valid key of role 'admin'; a valid
\* non-admin key gets 403 and an invalid key 401, with no state change; the
\* admin of T sees no usage row and no key of U and cannot revoke a key of U
\* (404, key unchanged).
C21_AdminRoleGateTenantBound ==
    [][/\ \A q \in KeySlots, raw \in PresentedKeys, op \in {"usage", "keys", "revoke"},
            key_id \in {0} \cup DOMAIN api_keys :
             AdminAuth(q, raw, op, key_id) =>
                /\ AdminCode(raw) = 401 => (keyresp'.code = 401 /\ keyreq' = keyreq)
                /\ AdminCode(raw) # 401 => keyresp' = keyresp
                /\ AdminCode(raw) # 200 =>
                      UNCHANGED <<api_keys, key_usage, usage_events, usage_failed>>
       /\ \A q \in KeySlots :
             AdminRoleCheck(q) =>
                /\ UNCHANGED <<api_keys, key_usage, usage_events, usage_failed>>
                /\ IF keyreq'[q].stage = "write" THEN AdminCode(keyreq[q].key) = 200
                   ELSE keyresp'.code = AdminCode(keyreq[q].key)
                /\ \A x \in keyresp'.rows_seen : x.tenant_id = keyreq[q].tenant
                /\ \A i \in keyresp'.keys_seen : api_keys[i].tenant_id = keyreq[q].tenant
                /\ \A i \in AdminRows(api_keys, keyreq[q].key) :
                      api_keys[i].tenant_id = keyreq[q].tenant
       /\ \A q \in KeySlots :
             RevokeCommit(q) =>
                \A i \in DOMAIN api_keys :
                   api_keys[i].tenant_id # keyreq[q].tenant =>
                      /\ api_keys'[i] = api_keys[i]
                      /\ keyreq[q].target = i => keyresp'.code = 404]_vars

(***************************************************************************)
(* Claims on POST /bootstrap (checked under SpecKeys)                      *)
(***************************************************************************)

C23_BootstrapTokenGate ==
    [][\A t \in Tenants, token \in BootTokens, authorization \in AuthHeaders :
          Bootstrap(t, token, authorization) =>
             /\ token = <<>> => keyresp'.code = 503
             /\ (token # <<>> /\ authorization # Bearer \o token) => keyresp'.code = 401
             /\ keyresp'.code \in {503, 401} => api_keys' = api_keys
             /\ api_keys' # api_keys =>
                   (token # <<>> /\ authorization = Bearer \o token)]_vars

(***************************************************************************)
(* Claims on the case routes: billing gate, access log, not-found answers  *)
(* (checked under SpecBilling and SpecApi)                                 *)
(***************************************************************************)

\* the committed cases of tenant t
CasesOf(t) == {k \in CaseIds : cases[k].status # "none" /\ cases[k].tenant_id = t}

\* usage rows of tenant t, counted on the table
UsageRowsOf(t) ==
    BagCardinality([x \in {y \in BagToSet(usage_events) : y.tenant_id = t}
                       |-> usage_events[x]])

\* C24: every free-tier tenant whose usage-event count exceeds 1000,
\* including a tenant that has no case yet, gets 402 on POST /cases and no
\* case is inserted; a tenant whose cases are paid or subscription is never
\* refused.
C24_FreeTierGate ==
    [][\A r \in Reqs, t \in Tenants :
          CreateInsert(r, t) =>
             /\ ((\A k \in CasesOf(t) : cases[k].billing_status = "free")
                    /\ UsageRowsOf(t) > 1000)
                   => (req'[r].resp = 402 /\ req'[r].pc = "done" /\ nextCase' = nextCase)
             /\ (CasesOf(t) # {}
                    /\ \A k \in CasesOf(t) : cases[k].billing_status \in {"paid", "subscription"})
                   => req'[r].resp # 402]_vars

(***************************************************************************)
(* The access log of GET and verify-replay                                 *)
(***************************************************************************)
\* the step in which request r's transaction commits
Commits(r) == req[r].pc = "commit" /\ req'[r].pc = "done"

\* the access-log row of a GET or a verify-replay of r's case, under the
\* tenant that owns the case
AccessRow(r) ==
    [tenant_id |-> cases[req[r].k].tenant_id, case_id |-> req[r].k,
     action |-> IF req[r].op = "get" THEN "VIEW" ELSE "VERIFY"]

\* C25 as stated: every successful GET appends exactly one VIEW row and
\* every successful verify-replay exactly one VERIFY row, for that case
\* under the owning tenant, and nothing else appends an access-log row.
\* Violated on a database that refuses the INSERT: the request answers 200
\* and no row is appended.
C25_AccessLogExactlyOne ==
    [][/\ \A r \in Reqs : Commits(r) =>
              access_logs' = access_logs \o
                  (IF req[r].op \in {"get", "verify"} THEN <<AccessRow(r)>> ELSE <<>>)
       /\ (\A r \in Reqs : ~Commits(r)) => access_logs' = access_logs]_vars

\* C25 (amended): every successful GET whose access-log INSERT is accepted
\* appends exactly one VIEW row and every successful verify-replay whose
\* INSERT is accepted exactly one VERIFY row, for that case under the owning
\* tenant; a request whose INSERT raised appends none, and create, finalize
\* and failed requests append none.
C25_AccessLogOnePerAcceptedInsert ==
    [][/\ \A r \in Reqs : Commits(r) =>
              /\ req'[r].resp = 200
              /\ access_logs' = access_logs \o
                    (IF req[r].op \in {"get", "verify"} /\ ~req[r].warned
                     THEN <<AccessRow(r)>> ELSE <<>>)
       /\ (\A r \in Reqs : ~Commits(r)) => access_logs' = access_logs]_vars

\* a VIEW row and a VERIFY row are stored, and a request has answered 200
\* after its INSERT was refused
C25_Witness ==
    /\ \E i, j \in DOMAIN access_logs :
          access_logs[i].action = "VIEW" /\ access_logs[j].action = "VERIFY"
    /\ \E r \in Reqs : req[r].pc = "done" /\ req[r].resp = 200 /\ req[r].warned

\* C26: when the access-log INSERT of a GET or a verify-replay fails, the
\* request still answers 200 and the replay_* update that verify-replay made
\* in the same transaction is committed.  Violated: the INSERT ran in the
\* request's transaction, which is aborted, so the update is rolled back.
C26_FailedLogKeepsTransaction ==
    [][\A r \in Reqs : (Commits(r) /\ req[r].warned) =>
          /\ req'[r].resp = 200
          /\ (req[r].op = "verify" /\ req[r].verified_at # 0) =>
                 cases'[req[r].k].replay_verified_at = req[r].verified_at]_vars

(***************************************************************************)
(* A case of another tenant and a case that does not exist                 *)
(***************************************************************************)
\* the step in which request r starts a GET, a finalize or a verify-replay
Starts(r) ==
    /\ Free(r)
    /\ req'[r] # req[r]
    /\ req'[r].op \in {"get", "finalize", "verify"}

\* case k is missing for tenant t: stored under another tenant, or not stored
Foreign(t, k) == cases[k].status # "none" /\ cases[k].tenant_id # t
Missing(k) == cases[k].status = "none"

\* C27: a GET, finalize or verify-replay under tenant U of a case id owned
\* by another tenant answers what it answers for a case id that does not
\* exist: 404, a response that carries nothing of the row, the case
\* untouched and no access-log, audit or result row written.
C27_ForeignAsMissing ==
    [][\A r \in Reqs : Starts(r) =>
          LET t == req'[r].tenant
              k == req'[r].k
          IN  (Foreign(t, k) \/ Missing(k)) =>
                 /\ req'[r] = [IdleReq EXCEPT !.op = req'[r].op, !.pc = "done",
                                              !.tenant = t, !.k = k, !.resp = 404]
                 /\ UNCHANGED <<cases, case_results, audit_logs, access_logs, lock>>]_vars

\* the same operation has answered 404 to T2 for a finalized case of T1 and
\* for a case id that is not stored
C27_Witness ==
    \E r, s \in Reqs :
       /\ r # s
       /\ req[r].op = req[s].op /\ req[r].op \in {"get", "finalize", "verify"}
       /\ req[r].pc = "done" /\ req[r].resp = 404 /\ req[r].tenant = "T2"
       /\ cases[req[r].k].status = "finalized" /\ cases[req[r].k].tenant_id = "T1"
       /\ req[s].pc = "done" /\ req[s].resp = 404 /\ req[s].tenant = "T2"
       /\ cases[req[s].k].status = "none"

(***************************************************************************)
(* The correlation id                                                      *)
(***************************************************************************)
\* C28: every response (a success, a structured error, the 429 of the rate
\* gate) carries X-Request-ID, equal to the id the client sent when it sent
\* one (surrounding blanks apart) and to a generated UUID otherwise, and a
\* structured error body carries the same id as request_id.  Violated by the
\* 429 of the gate, which wraps the middleware that assigns the id.
C28_RequestIdOnEveryResponse ==
    gate.path # <<>> =>
        /\ IF Strip(gate.sent) # <<>> THEN gate.x_request_id = Strip(gate.sent)
           ELSE gate.x_request_id \in Uuids
        /\ gate.error => gate.request_id = gate.x_request_id

(***************************************************************************)
(* Feedback and scoring                                                    *)
(***************************************************************************)
\* C29: whatever number of feedback rows either feedback endpoint inserts
\* between two scoring runs on the same input, the runs return the same
\* ranking, and a feedback insertion leaves what scoring reads (the
\* repertory rows and the cached statistics) as it was.
C29_FeedbackLeavesScoring ==
    /\ [](\A ids \in CaseInputs : \A i, j \in DOMAIN scored[ids] :
             scored[ids][i].results = scored[ids][j].results)
    /\ [][(synthesis' # synthesis \/ rows' # rows) =>
             /\ EngineRows(synthesis') = EngineRows(synthesis)
             /\ stats_cache' = stats_cache
             /\ \A ids \in CaseInputs :
                   ScoreCase(synthesis', GetCachedStats(synthesis', stats_cache'), ids)
                     = ScoreCase(synthesis, GetCachedStats(synthesis, stats_cache), ids)]_vars

\* a case scored twice with a non-empty ranking, feedback rows inserted
\* through both endpoints between the two runs
C29_Witness ==
    \E ids \in CaseInputs :
       /\ Len(scored[ids]) = 2
       /\ scored[ids][1].results # <<>>
       /\ scored[ids][2].clinical_feedback > scored[ids][1].clinical_feedback
       /\ scored[ids][2].mcare_feedback > scored[ids][1].mcare_feedback

(***************************************************************************)
(* The usage event of an authentication (checked under SpecUsageFair)      *)
(***************************************************************************)
\* the usage task of an authentication with raw key raw on GET /admin/usage
UsageTaskOf(raw) ==
    {[tenant_id |-> api_keys[i].tenant_id, api_key_id |-> i,
      endpoint |-> AdminEndpoint("usage")] :
        i \in {j \in DOMAIN api_keys : /\ api_keys[j].key_hash = HashKey(raw)
                                       /\ api_keys[j].is_active
                                       /\ api_keys[j].revoked_at = 0}}

\* C30: a successful API-key authentication schedules exactly one usage
\* task for the resolved tenant, key id and request path and a failed one
\* none; a task ends as exactly one usage_events row or as one logged
\* failure, without touching the request or its response; and every
\* scheduled task does end.
C30_UsageEventuallyRecorded ==
    /\ [][\A q \in KeySlots :
             (keyreq[q].stage = None /\ keyreq'[q].stage = "role") =>
                 \E task \in UsageTaskOf(keyreq'[q].key) :
                    /\ task.tenant_id = keyreq'[q].tenant
                    /\ key_usage' = key_usage (+) SetToBag({task})
                    /\ UNCHANGED <<usage_events, usage_failed>>]_vars
    /\ [][/\ BagCardinality(key_usage') > BagCardinality(key_usage) =>
                \E q \in KeySlots : keyreq[q].stage = None /\ keyreq'[q].stage = "role"
          /\ (keyresp' # keyresp /\ keyresp'.code = 401) =>
                UNCHANGED <<key_usage, usage_events, usage_failed>>]_vars
    /\ [][BagCardinality(key_usage') < BagCardinality(key_usage) =>
             \E task \in BagToSet(key_usage) :
                /\ key_usage' = key_usage (-) SetToBag({task})
                /\ \/ /\ usage_events' = usage_events (+) SetToBag({task})
                      /\ usage_failed' = usage_failed
                   \/ /\ usage_failed' = usage_failed (+) SetToBag({task})
                      /\ usage_events' = usage_events
                /\ UNCHANGED <<keyreq, keyresp, api_keys>>]_vars
    /\ (key_usage # EmptyBag ~> key_usage = EmptyBag)

\* GET /admin/usage has been answered 200 while a usage task is still
\* pending, one task has stored its row and one has logged a failure
C30_Witness ==
    /\ keyresp.op = "usage" /\ keyresp.code = 200
    /\ key_usage # EmptyBag
    /\ \E x \in BagToSet(usage_events) : x.endpoint = AdminEndpoint("usage")
    /\ usage_failed # EmptyBag

(***************************************************************************)
(* A finalize that fails                                                   *)
(***************************************************************************)
\* the step in which a finalize of r is answered with an error
FinalizeFails(r) ==
    /\ req'[r] # req[r]
    /\ req'[r].op = "finalize" /\ req'[r].pc = "done" /\ req'[r].resp # 200

\* C31: a finalize answered 404 or 400 (missing case, case not draft when
\* loaded, guarded UPDATE matching no row) changes no table, and nothing of
\* it is written later: every case_results row and every FINALIZE audit row
\* belongs to a finalize that was answered 200.
C31_FailedFinalizeLeavesNothing ==
    /\ [][\A r \in Reqs : FinalizeFails(r) =>
             /\ req'[r].resp \in {400, 404}
             /\ req'[r].pres = {} /\ req'[r].paudit = {} /\ req'[r].pcase = NoCase
             /\ UNCHANGED <<cases, case_results, audit_logs, access_logs>>]_vars
    /\ [](\A k \in CaseIds :
             /\ Cardinality({x \in case_results : x.case_id = k}) = wins[k]
             /\ Cardinality({x \in audit_logs : x.record_id = k /\ x.action = "FINALIZE"})
                   = wins[k]
             /\ wins[k] = IF cases[k].status = "finalized" THEN 1 ELSE 0)

\* a finalize that loaded the case as draft has lost the race: it is
\* answered 400 while the case holds what the winner wrote
C31_Witness ==
    \E r \in Reqs :
       /\ req[r].op = "finalize" /\ req[r].pc = "done" /\ req[r].resp = 400
       /\ req[r].seen.status = "draft"
       /\ cases[req[r].k].status = "finalized"
       /\ Cardinality({x \in case_results : x.case_id = req[r].k}) = 1

(***************************************************************************)
(* C32                                                                     *)
(***************************************************************************)
\* C32: finalize and verify-replay canonicalize alike: for every ranking
\* snapshot, one with remedy names outside ASCII included, the bytes
\* finalize hashed into result_signature are the bytes verify-replay
\* recomputes from the stored ranking_snapshot.
C32_SameCanonicalBytes ==
    \A k \in CaseIds :
        (cases[k].status = "finalized" /\ wins[k] = 1)
          => cases[k].result_signature.pre = VerifyCanonical(cases[k].ranking_snapshot.rows)

(***************************************************************************)
(* C33                                                                     *)
(***************************************************************************)
\* the step in which verify-replay r commits its stamp on a case that an
\* earlier verify-replay has stamped
Restamps(r) ==
    /\ Commits(r)
    /\ req[r].op = "verify" /\ req[r].pcase.status # "none"
    /\ cases[req[r].k].replay_verification_ok # "null"

\* the answer of r is the answer the earlier call stored
SameAnswer(r) ==
    LET details == cases[req[r].k].replay_verification_details
    IN  /\ req[r].ok = details.match
        /\ req[r].expected = details.expected
        /\ req[r].computed = details.computed

\* the columns of case k the step changes
ChangedCols(k) == {c \in DOMAIN cases[k] : cases'[k][c] # cases[k][c]}

\* C33 as stated: repeated verify-replay calls on a finalized case give the
\* same ok, expected and computed, and between two calls the only column
\* of the case that differs is the re-stamped replay_verified_at.
\* Violated: every UPDATE also fires trg_set_updated_at_cases.
C33_VerifyIdempotent ==
    [][\A r \in Reqs : Restamps(r) =>
          /\ SameAnswer(r)
          /\ ChangedCols(req[r].k) = {"replay_verified_at"}]_vars

\* C33 as amended: repeated verify-replay calls on a finalized case give
\* the same ok, expected and computed, and between two calls the columns
\* of the case that differ are the re-stamped replay_verified_at and
\* updated_at, which the trigger of every UPDATE sets.
C33_VerifyIdempotentButUpdatedAt ==
    /\ [][\A r \in Reqs : Restamps(r) =>
             /\ SameAnswer(r)
             /\ ChangedCols(req[r].k) = {"replay_verified_at", "updated_at"}]_vars
    /\ [](\A r1, r2 \in Reqs :
             (/\ req[r1].op = "verify" /\ req[r1].pc = "done" /\ req[r1].resp = 200
              /\ req[r2].op = "verify" /\ req[r2].pc = "done" /\ req[r2].resp = 200
              /\ req[r1].k = req[r2].k)
               => /\ req[r1].ok = req[r2].ok
                  /\ req[r1].expected = req[r2].expected
                  /\ req[r1].computed = req[r2].computed)

\* a second verify-replay of a case whose signature does not verify,
\* answered ok = false as the first was, its later stamp stored
C33_Witness ==
    \E r \in Reqs :
        /\ req[r].op = "verify" /\ req[r].pc = "done" /\ req[r].resp = 200 /\ ~req[r].ok
        /\ req[r].seen.replay_verification_ok = "false"
        /\ cases[req[r].k].replay_verified_at = req[r].verified_at
        /\ cases[req[r].k].replay_verified_at # req[r].seen.replay_verified_at

(***************************************************************************)
(* C34                                                                     *)
(***************************************************************************)
\* the SQL NULL of a replay_* column
ReplayNull(c) ==
    IF c = "replay_verified_at" THEN 0
    ELSE IF c = "replay_verification_ok" THEN "null"
    ELSE NullDetails

\* C34: once replay_verified_at, replay_verification_ok or
\* replay_verification_details of a finalized case is set, no request and
\* no UPDATE the storage layer accepts from the owning tenant returns it
\* to null.
C34_ReplayNeverBackToNull ==
    [][\A k \in CaseIds :
          cases[k].status = "finalized" =>
              \A c \in ReplayCols :
                  cases[k][c] # ReplayNull(c) => cases'[k][c] # ReplayNull(c)]_vars

(***************************************************************************)
(* C35                                                                     *)
(***************************************************************************)
\* C35: a stored case whose status is not finalized has replay_verified_at,
\* replay_verification_ok and replay_verification_details all null.
C35_ReplayOnlyOnFinalized ==
    \A k \in CaseIds :
        cases[k].status \in {"draft", "archived"} =>
            /\ cases[k].replay_verified_at = 0
            /\ cases[k].replay_verification_ok = "null"
            /\ cases[k].replay_verification_details.null

(***************************************************************************)
(* C36                                                                     *)
(***************************************************************************)
\* the step in which the rotate request of slot q leaves its transaction
RotateEnds(q) == keyreq[q].op = "rotate" /\ keyreq'[q] = NoKeyReq

\* C36: rotation deactivates the presented key and inserts the new key in
\* one transaction: the step that makes the new key visible to a lookup is
\* the step after which the presented key no longer authenticates, and no
\* step deactivates a key without revoking it unless it inserts a key that
\* authenticates.
C36_RotationAtomic ==
    [][/\ \A q \in KeySlots :
             RotateEnds(q) =>
                 /\ Len(api_keys') = Len(api_keys) + 1
                 /\ KeyLookup(api_keys, keyresp'.new_key) = {}
                 /\ KeyLookup(api_keys', keyresp'.new_key) = {Len(api_keys')}
                 /\ KeyLookup(api_keys', keyreq[q].key) = {}
       /\ \A i \in DOMAIN api_keys :
             (/\ api_keys[i].is_active /\ ~api_keys'[i].is_active
              /\ api_keys'[i].revoked_at = api_keys[i].revoked_at)
               => /\ Len(api_keys') = Len(api_keys) + 1
                  /\ KeyValid(api_keys'[Len(api_keys')])
                  /\ \E q \in KeySlots :
                        RotateEnds(q) /\ api_keys[i].key_hash = HashKey(keyreq[q].key)]_vars

\* a rotation answered 200 while a revoke request that authenticated before
\* it is still on its way: the new key authenticates, the presented one
\* does not
C36_Witness ==
    /\ keyresp.op = "rotate" /\ keyresp.code = 200
    /\ KeyLookup(api_keys, keyresp.new_key) # {}
    /\ KeyLookup(api_keys, keyresp.key) = {}
    /\ \E q \in KeySlots : keyreq[q].op = "revoke" /\ keyreq[q].key = keyresp.key

(***************************************************************************)
(* C37                                                                     *)
(***************************************************************************)
\* C37: tenant scopes open at the same time for different tenants keep
\* their own binding: what a statement inside a scope reads as
\* app.tenant_id is the tenant that scope was opened for, and opening,
\* committing or rolling back one scope leaves the other's binding alone.
C37_ConcurrentScopesKeepBinding ==
    /\ [](last.kind \in {"show", "select"} /\ conn[last.c].local # NoLocal
             => last.g = conn[last.c].local)
    /\ [][\A c \in Conns :
             /\ \A t \in Tenants :
                   (~conn[c].open /\ conn'[c].open /\ conn'[c].local = t)
                     => \A d \in Conns \ {c} : conn'[d] = conn[d]
             /\ (conn[c].open /\ conn'[c].open) => conn'[c].local = conn[c].local]_vars

\* the scope of T1 reads T1 while the scope of T2 is open on the other
\* connection
C37_Witness ==
    /\ conn["c1"].open /\ conn["c1"].local = "T1"
    /\ conn["c2"].open /\ conn["c2"].local = "T2"
    /\ last.kind = "show" /\ last.c = "c1" /\ last.g = "T1"

(***************************************************************************)
(* C38                                                                     *)
(***************************************************************************)
\* C38: a presented key is rotated at most once: of the rotate requests
\* that present the same key, those whose authentication ran before any
\* deactivation committed included, at most one is answered 200, so a key
\* never has two successor keys that authenticate.
C38_RotatedAtMostOnce ==
    /\ [][\A q \in KeySlots :
             (RotateEnds(q) /\ keyresp'.code = 200) => keyreq[q].key \notin rotated]_vars
    /\ [](Cardinality({i \in DOMAIN api_keys : KeyValid(api_keys[i])}) <= Len(SeedKeys))

(***************************************************************************)
(* C39                                                                     *)
(***************************************************************************)
\* the FINALIZE rows audit_logs holds for case k
FinalizeRows(k) ==
    {x \in audit_logs : x.action = "FINALIZE" /\ x.table_name = "cases" /\ x.record_id = k}

\* C39: in every state the API reaches, audit_logs holds exactly one
\* FINALIZE row with table_name 'cases' and record_id c, under c's tenant,
\* for every finalized case c, none for a case that is not finalized, and
\* no FINALIZE row that names anything else.
C39_OneFinalizeAuditRow ==
    /\ \A k \in CaseIds :
          IF cases[k].status = "finalized"
          THEN /\ Cardinality(FinalizeRows(k)) = 1
               /\ \A x \in FinalizeRows(k) : x.tenant_id = cases[k].tenant_id
          ELSE FinalizeRows(k) = {}
    /\ \A x \in audit_logs : x.action = "FINALIZE" => \E k \in CaseIds : x \in FinalizeRows(k)

\* a finalized case with its audit row, after a second finalize of it was
\* refused
C39_Witness ==
    \E r \in Reqs :
        /\ req[r].op = "finalize" /\ req[r].pc = "done" /\ req[r].resp = 400
        /\ cases[req[r].k].status = "finalized"
        /\ \E x \in FinalizeRows(req[r].k) : x.id[1] # r

(***************************************************************************)
(* C40                                                                     *)
(***************************************************************************)
\* C40: evict_inactive(idle_seconds) changes no admission decision, whatever
\* idle_seconds is: the buckets it leaves still hold every admission of the
\* current window, a key without a bucket has none, and no key is admitted
\* more than limit times in a window.
C40_EvictionKeepsDecisions ==
    \A key \in LimiterKeys :
        /\ Recent(key, clock) <= Limit
        /\ IF key \in DOMAIN buckets
           THEN Len(Evict(buckets[key], clock - Window)) = Recent(key, clock)
           ELSE Recent(key, clock) = 0

============================================================================
